---- MODULE Spec2Model ----
(***************************************************************************)
(* Verification model of plakar: the B+tree iterators (btree/iter.go), the  *)
(* local state and its delta index (repository/state/state.go), the         *)
(* key/value repository cache behind it (caching/repository.go), the sync,  *)
(* clone, restore and checksum subcommands (cmd/plakar/subcommands), the    *)
(* HTTP reporter (reporting), main (cmd/plakar/plakar.go) and the registry  *)
(* of exporter backends (snapshot/exporter/exporter.go).                    *)
(***************************************************************************)
EXTENDS Integers, Sequences, FiniteSets, TLC

VARIABLES
    \* ---- btree ----
    store,      \* the node store: pointer -> node
    Root,       \* BTree.Root
    entries,    \* the keys inserted so far (ground truth for the iterators)
    bad,        \* the pointer whose store.Get fails (Nil: none)
    it,         \* the open iterator (forwardIter / backwardIter), kind "none" when closed
    mode,       \* which constructor opened it: "all", "from", "rev"
    fromKey,    \* the key given to ScanFrom
    yielded,    \* what Current() returned after each successful Next()
    ret,        \* what the last call of Next() returned: "none", "true", "false"
    extra,      \* number of Next() calls made after the first one that returned false
    \* ---- local state ----
    db,         \* the repository cache of the LocalState: key -> value
    Metadata,   \* ls.Metadata
    w,          \* the buffer SerializeToStream wrote (NoStream: none)
    peer,       \* what FromStream made of w with an empty cache
    lastOp,     \* the last operation on the state, its argument and its result
    inserted,   \* the delta entries inserted so far, the latest per (type, blob)
    files,      \* the state files InsertState is given: id, reader content, what they hold
    \* ---- delta entry codec ----
    cde,        \* the entry to encode
    cbuf,       \* the buffer ToBytes returned (possibly truncated)
    cdec,       \* what DeltaEntryFromBytes returned for cbuf
    cpc,        \* position in the encode / decode sequence
    \* ---- sync ----
    repos,      \* the two repositories: "repo" (local) and "peerRepository"
    syargs,     \* the arguments of cmd_sync: syncSnapshotID and direction
    sypc,       \* position in cmd_sync: "idle", "start", "pass1", "pass2", "done"
    srcSyncList, \* the snapshots of the first loop, in the order the map yields them
    dstSyncList, \* the snapshots of the second loop (direction with)
    synext,     \* index in the current list of the next snapshot to synchronize
    sy,         \* the running call of synchronize and its position (NoSync: none)
    syncerrs,   \* what each call of synchronize returned, in call order
    syret,      \* what cmd_sync returned
    sylog,      \* the GetBlob / PutBlob calls made, with what the destination held
    syfaults,   \* number of failures injected so far
    sybefore,   \* the snapshots each repository held when cmd_sync started
    symaps,     \* srcSnapshotsMap and dstSnapshotsMap
    \* ---- clone ----
    sourceStore, \* the store of the repository being cloned
    cloneStore, \* the store storage.Create made
    clpc,       \* position of cmd_clone: "idle", "start", "packfiles", "states", "done"
    gopack,     \* the packfile goroutines: packfile -> "get", "put", "done"
    gostate,    \* the state goroutines: state -> "get", "put", "done"
    wg,         \* the counter of the current sync.WaitGroup
    clret,      \* what cmd_clone returned
    clfaults,   \* number of failures injected so far
    putStateIssued, \* cloneStore.PutState has been called
    \* ---- restore ----
    rsheaders,  \* the headers utils.GetHeaders returns, in creation order
    rsctx,      \* the AppContext: CWD
    rsargs,     \* the command line: the -to option and the snapshot arguments
    rspc,       \* position of cmd_restore: "idle", "start", "done"
    restored,   \* the calls of Snapshot.Restore made, in order
    rsout,      \* the lines printed
    rsret,      \* what cmd_restore returned
    \* ---- reporting ----
    reporter, \* the HTTPReporter: its retry count and whether its url parses
    rppc, \* position of Emit: "idle", "loop", "returned"
    rpi, \* number of iterations of Emit's loop completed
    rpanswers, \* what each call of tryEmit returned, in order
    rplog, \* the records Emit logged, in order
    \* ---- main ----
    mnargs, \* the command line: the -log option and the remaining arguments
    outputLog, \* the variable the -log flag is bound to
    command, \* the command main selected
    storeloc, \* the repository location main selected
    mnerr, \* main's variable err
    mnpc, \* position of main: "idle", "flags", "parse", "early", "create", "exited"
    mnexit, \* exit status of the process, -1 while it runs
    mnout, \* what main printed, in order
    mncalls, \* the commands main called with their outcome, in order
    \* ---- exporter registry ----
    backends, \* the registry: backend name -> the factory registered for it
    muBackends, \* the goroutine holding the mutex, Unlocked when free
    exgo, \* per goroutine, its position in Register and the name it registers
    exaborted, \* log.Fatalf has ended the process
    exstores, \* the assignments backends[name] = backend made, in order
    exret, \* the last call of Backends or NewExporter and what it returned
    \* ---- VisitDFS ----
    vstack, \* VisitDFS: its stack of steps (ptr, idx)
    vcalls, \* VisitDFS: the calls cb(ptr, node) made, in order
    vret, \* VisitDFS: the error returned, "none" while it runs
    vpc, \* position of VisitDFS: "idle", "loop", "done"
    \* ---- checksum ----
    ckfile, \* the regular file displayChecksums is called for: its content in the snapshot and the checksum recorded for its object
    fastcheck, \* the -fast flag
    ckchecksum, \* displayChecksums: its variable checksum
    hasher, \* displayChecksums: what has been written to the hasher, NoHasher when none was made
    ckpc, \* position of displayChecksums: "idle", "lookup", "hash", "print", "done"
    ckout, \* the lines printed on ctx.Stdout
    ckret, \* the error displayChecksums returned
    \* ---- InsertState on damaged streams ----
    pbfailed, \* the state files whose InsertState has returned an error
    \* ---- state records ----
    dsput, \* the state ids given to PutState and not given to DelState since
    \* ---- index ----
    ix, \* the Index: checksumID, Checksums, checksumsInverse, Chunks, Objects
    ixpc, \* per goroutine: where it stands in the Index method it runs
    ixfr, \* per goroutine: the arguments and locals of its call
    ixheld, \* per goroutine: the mutexes it holds, in the order it locked them
    ixret, \* what the call that returned last returned, and to which goroutine
    ixloads, \* how many times the index was loaded from its bytes
    ixpanic, \* the panic that ended the program, "none" while it runs
    \* ---- rm ----
    rmstore, \* the snapshot ids the store holds
    rmargs, \* the arguments of rm
    rmlist, \* snapshots, the list rm took from the store when it started
    rmpc, \* where cmd_rm stands: idle, validate, purge, done, fatal
    rmi, \* the loop index i
    rmpurged, \* the ids given to Store().Purge, in order
    rmret, \* the status rm returned or exited with, and the message of log.Fatalf
    \* ---- stats ----
    ssin, \* the store stats runs on: its snapshots, and which reads fail
    ssout, \* what stats_plakar computed and returned
    sspc, \* idle or done
    \* ---- xattr ----
    xattr, \* the Xattr ToPath was called on: Type, Path, Name
    xkey, \* the string ToPath returned
    xapc \* idle before the call of ToPath, done after it

btvars == <<store, Root, entries, bad, it, mode, fromKey, yielded, ret, extra>>

stvars == <<db, Metadata, w, peer, lastOp, inserted, files>>

cdvars == <<cde, cbuf, cdec, cpc>>

syvars == <<repos, syargs, sypc, srcSyncList, dstSyncList, synext, sy, syncerrs,
            syret, sylog, syfaults, sybefore, symaps>>

clvars == <<sourceStore, cloneStore, clpc, gopack, gostate, wg, clret, clfaults,
            putStateIssued>>

rsvars == <<rsheaders, rsctx, rsargs, rspc, restored, rsout, rsret>>

rpvars == <<reporter, rppc, rpi, rpanswers, rplog>>

mnvars == <<mnargs, outputLog, command, storeloc, mnerr, mnpc, mnexit, mnout, mncalls>>

exvars == <<backends, muBackends, exgo, exaborted, exstores, exret>>

vsvars == <<vstack, vcalls, vret, vpc>>

ckvars == <<ckfile, fastcheck, ckchecksum, hasher, ckpc, ckout, ckret>>

pbvars == <<pbfailed>>

dsvars == <<dsput>>

ixvars == <<ix, ixpc, ixfr, ixheld, ixret, ixloads, ixpanic>>

rmvars == <<rmstore, rmargs, rmlist, rmpc, rmi, rmpurged, rmret>>

ssvars == <<ssin, ssout, sspc>>

xavars == <<xattr, xkey, xapc>>

vars == <<btvars, stvars, cdvars, syvars, clvars, rsvars, rpvars, mnvars, exvars, vsvars, ckvars, pbvars, dsvars, ixvars, rmvars, ssvars, xavars>>

(***************************************************************************)
(* Bounds of the model.                                                     *)
(***************************************************************************)
MaxKey == 6         \* keys are drawn from 1..MaxKey
MaxExtraNext == 2   \* calls of Next() allowed after the end of the stream
MaxFaults == 1      \* failures injected in one run of a subcommand

(***************************************************************************)
(* Generic helpers.                                                         *)
(***************************************************************************)
Last(s) == s[Len(s)]
Front(s) == SubSeq(s, 1, Len(s) - 1)

RECURSIVE Reverse(_)
Reverse(s) == IF Len(s) = 0 THEN <<>> ELSE Append(Reverse(Tail(s)), Head(s))

InsertAt(s, i, x) == SubSeq(s, 1, i - 1) \o <<x>> \o SubSeq(s, i, Len(s))

IsPrefixOf(p, s) == Len(p) <= Len(s) /\ SubSeq(s, 1, Len(p)) = p

\* the element of a one-element set: Only({e(x) : x \in {v}}) is e with x standing
\* for the value of v, computed once
Only(S) == CHOOSE x \in S : TRUE

(***************************************************************************)
(* B+tree: nodes, store, findleaf and Insert.                               *)
(***************************************************************************)
Nil == 0
NoErr == "nil"
ErrGet == "store: get failed"
Panic == <<"panic">>

Order == 3

ValueOf(k) == 100 - k

NilNode == [Keys |-> <<>>, Values |-> <<>>, Pointers |-> <<>>, Next |-> Nil]

isleaf(n) == Len(n.Pointers) = 0

compare(a, b) == IF a < b THEN -1 ELSE IF a = b THEN 0 ELSE 1

\* store.Get(ptr): the node, or an error
StoreGet(ptr) ==
    IF ptr = bad
    THEN [err |-> ErrGet, node |-> NilNode]
    ELSE [err |-> NoErr, node |-> store[ptr]]

\* slices.BinarySearchFunc(keys, key, compare): 0-based position and found flag
BinarySearch(keys, key) ==
    [idx   |-> Cardinality({i \in 1..Len(keys) : compare(keys[i], key) < 0}),
     found |-> \E i \in 1..Len(keys) : compare(keys[i], key) = 0]

\* the child a lookup of key follows in an internal node (1-based index)
ChildIndex(n, key) ==
    LET bs == BinarySearch(n.Keys, key)
        idx == IF bs.found THEN bs.idx + 1 ELSE bs.idx
    IN  IF idx < Len(n.Keys) THEN idx + 1 ELSE Len(n.Keys) + 1

RECURSIVE findpath(_, _, _)
findpath(st, ptr, key) ==
    IF isleaf(st[ptr])
    THEN <<ptr>>
    ELSE <<ptr>> \o findpath(st, st[ptr].Pointers[ChildIndex(st[ptr], key)], key)

\* findleaf(key): the leaf where key belongs and the path of pointers to it
findleaf(key) ==
    LET path == findpath(store, Root, key)
    IN  IF \E i \in 1..Len(path) : path[i] = bad
        THEN [node |-> NilNode, path |-> path, err |-> ErrGet]
        ELSE [node |-> store[Last(path)], path |-> path, err |-> NoErr]

NewPtr(st) == Cardinality(DOMAIN st) + 1

StorePut(st, n) == [p \in (DOMAIN st) \cup {NewPtr(st)} |-> IF p \in DOMAIN st THEN st[p] ELSE n]

\* insertUpwards: add (key, ptr) to the parents along path, splitting full nodes
RECURSIVE insertUpwards(_, _, _, _, _)
insertUpwards(st, root, path, key, ptr) ==
    IF Len(path) = 0
    THEN LET newroot == [Keys |-> <<key>>, Values |-> <<>>,
                         Pointers |-> <<root, ptr>>, Next |-> Nil]
         IN  [store |-> StorePut(st, newroot), Root |-> NewPtr(st)]
    ELSE LET p == Last(path)
             n == st[p]
             pos == BinarySearch(n.Keys, key).idx
             keys == InsertAt(n.Keys, pos + 1, key)
             ptrs == InsertAt(n.Pointers, pos + 2, ptr)
         IN  IF Len(keys) < Order
             THEN [store |-> [st EXCEPT ![p] = [n EXCEPT !.Keys = keys, !.Pointers = ptrs]],
                   Root |-> root]
             ELSE LET cutoff == Len(keys) \div 2
                      up == keys[cutoff + 1]
                      left == [n EXCEPT !.Keys = SubSeq(keys, 1, cutoff),
                                        !.Pointers = SubSeq(ptrs, 1, cutoff + 1)]
                      right == [Keys |-> SubSeq(keys, cutoff + 2, Len(keys)),
                                Values |-> <<>>,
                                Pointers |-> SubSeq(ptrs, cutoff + 2, Len(ptrs)),
                                Next |-> Nil]
                      st1 == StorePut([st EXCEPT ![p] = left], right)
                  IN  insertUpwards(st1, root, Front(path), up, NewPtr(st))

\* BTree.Insert(key, val) on a tree that does not hold key
InsertTree(key, val) ==
    LET fl == findleaf(key)
        p == Last(fl.path)
        n == fl.node
        pos == BinarySearch(n.Keys, key).idx
        keys == InsertAt(n.Keys, pos + 1, key)
        vals == InsertAt(n.Values, pos + 1, val)
    IN  IF Len(keys) < Order
        THEN [store |-> [store EXCEPT ![p] = [n EXCEPT !.Keys = keys, !.Values = vals]],
              Root |-> Root]
        ELSE LET cutoff == (Len(keys) + 1) \div 2
                 new == [Keys |-> SubSeq(keys, cutoff + 1, Len(keys)),
                         Values |-> SubSeq(vals, cutoff + 1, Len(vals)),
                         Pointers |-> <<>>,
                         Next |-> n.Next]
                 old == [n EXCEPT !.Keys = SubSeq(keys, 1, cutoff),
                                  !.Values = SubSeq(vals, 1, cutoff),
                                  !.Next = NewPtr(store)]
                 st1 == StorePut([store EXCEPT ![p] = old], new)
             IN  insertUpwards(st1, Root, Front(fl.path), new.Keys[1], NewPtr(store))

(***************************************************************************)
(* forwardIter (iter.go).                                                   *)
(***************************************************************************)
NoIter == [kind |-> "none", ptr |-> Nil, current |-> NilNode, idx |-> 0,
           err |-> NoErr, cur |-> NilNode, steps |-> <<>>]

FailedIter(e) == [NoIter EXCEPT !.kind = "failed", !.err = e]

\* mutant of forwardNext: the index is not reset when moving to the next leaf
forwardNext_KeepIdx(fit) ==
    IF fit.err # NoErr
    THEN [it |-> fit, ret |-> FALSE]
    ELSE LET idx == fit.idx + 1
             f1 == [fit EXCEPT !.idx = idx]
         IN  IF idx < Len(fit.current.Values)
             THEN [it |-> f1, ret |-> TRUE]
             ELSE IF fit.current.Next = Nil
             THEN [it |-> f1, ret |-> FALSE]
             ELSE LET nextptr == fit.current.Next
                      g == StoreGet(nextptr)
                  IN  IF g.err # NoErr
                      THEN [it |-> [f1 EXCEPT !.err = g.err], ret |-> FALSE]
                      ELSE [it |-> [f1 EXCEPT !.ptr = nextptr, !.current = g.node],
                            ret |-> TRUE]

\* variant of forwardNext without the test of fit.err that opens it
forwardNext_Retry(fit) ==
    LET idx == fit.idx + 1
        f1 == [fit EXCEPT !.idx = idx]
    IN  IF idx < Len(fit.current.Values)
        THEN [it |-> f1, ret |-> TRUE]
        ELSE IF fit.current.Next = Nil
        THEN [it |-> f1, ret |-> FALSE]
        ELSE LET nextptr == fit.current.Next
                 g == StoreGet(nextptr)
             IN  IF g.err # NoErr
                 THEN [it |-> [f1 EXCEPT !.err = g.err], ret |-> FALSE]
                 ELSE [it |-> [f1 EXCEPT !.ptr = nextptr, !.current = g.node, !.idx = 0],
                       ret |-> TRUE]

\* forwardIter.Next(): the iterator afterwards and the value returned
forwardNext(fit) ==
    IF fit.err # NoErr
    THEN [it |-> fit, ret |-> FALSE]
    ELSE LET idx == fit.idx + 1
             f1 == [fit EXCEPT !.idx = idx]
         IN  IF idx < Len(fit.current.Values)
             THEN [it |-> f1, ret |-> TRUE]
             ELSE IF fit.current.Next = Nil
             THEN [it |-> f1, ret |-> FALSE]
             ELSE LET nextptr == fit.current.Next
                      g == StoreGet(nextptr)
                  IN  IF g.err # NoErr
                      THEN [it |-> [f1 EXCEPT !.err = g.err], ret |-> FALSE]
                      ELSE [it |-> [f1 EXCEPT !.ptr = nextptr, !.current = g.node, !.idx = 0],
                            ret |-> TRUE]

\* forwardIter.Current(): Keys[idx], Values[idx] (a panic when idx is out of range)
forwardCurrent(fit) ==
    IF fit.idx >= 0 /\ fit.idx < Len(fit.current.Keys) /\ fit.idx < Len(fit.current.Values)
    THEN <<fit.current.Keys[fit.idx + 1], fit.current.Values[fit.idx + 1]>>
    ELSE Panic

\* the descent of ScanAll: follow Pointers[0] down to the first leaf
RECURSIVE ScanAllDescend(_)
ScanAllDescend(ptr) ==
    LET g == StoreGet(ptr)
    IN  IF g.err # NoErr THEN [err |-> g.err, ptr |-> ptr, n |-> NilNode]
        ELSE IF isleaf(g.node) THEN [err |-> NoErr, ptr |-> ptr, n |-> g.node]
        ELSE ScanAllDescend(g.node.Pointers[1])

\* BTree.ScanAll(): the iterator it returns
ScanAllIter ==
    LET d == ScanAllDescend(Root)
    IN  IF d.err # NoErr
        THEN FailedIter(d.err)
        ELSE [NoIter EXCEPT !.kind = "fwd", !.ptr = d.ptr, !.current = d.n, !.idx = -1]

\* mutant of RangeKeys: the comparison is strict (< instead of <=)
RangeKeys_Strict(keys, key) ==
    LET hits == {i \in 1..Len(keys) : compare(key, keys[i]) < 0}
    IN  IF hits # {}
        THEN [idx |-> (CHOOSE i \in hits : \A j \in hits : i <= j) - 1, found |-> TRUE]
        ELSE [idx |-> IF Len(keys) = 0 THEN 0 ELSE Len(keys) - 1, found |-> FALSE]

\* `for idx = range node.Keys { if compare(key, Keys[idx]) <= 0 { found; break } }`
RangeKeys(keys, key) ==
    LET hits == {i \in 1..Len(keys) : compare(key, keys[i]) <= 0}
    IN  IF hits # {}
        THEN [idx |-> (CHOOSE i \in hits : \A j \in hits : i <= j) - 1, found |-> TRUE]
        ELSE [idx |-> IF Len(keys) = 0 THEN 0 ELSE Len(keys) - 1, found |-> FALSE]

\* BTree.ScanFrom(key): the iterator it returns
ScanFromIter(key) ==
    LET fl == findleaf(key)
        r == RangeKeys(fl.node.Keys, key)
    IN  IF fl.err # NoErr THEN FailedIter(fl.err)
        ELSE IF r.found
        THEN [NoIter EXCEPT !.kind = "fwd", !.ptr = Last(fl.path), !.current = fl.node,
                            !.idx = r.idx - 1]
        ELSE IF fl.node.Next = Nil
        THEN [NoIter EXCEPT !.kind = "fwd", !.ptr = Last(fl.path), !.current = fl.node,
                            !.idx = (r.idx + 1) - 1]
        ELSE LET g == StoreGet(fl.node.Next)
             IN  IF g.err # NoErr THEN FailedIter(g.err)
                 ELSE [NoIter EXCEPT !.kind = "fwd", !.ptr = fl.node.Next,
                                     !.current = g.node, !.idx = 0 - 1]

(***************************************************************************)
(* backwardIter (iter.go).                                                  *)
(***************************************************************************)
\* backwardIter.dive(ptr): push a step per node down the rightmost branch
RECURSIVE dive(_, _, _)
dive(steps, cur, ptr) ==
    LET g == StoreGet(ptr)
    IN  IF g.err # NoErr
        THEN [err |-> g.err, steps |-> steps, cur |-> cur]
        ELSE LET st2 == Append(steps, [ptr |-> ptr, idx |-> Len(g.node.Keys)])
             IN  IF isleaf(g.node)
                 THEN [err |-> NoErr, steps |-> st2, cur |-> g.node]
                 ELSE dive(st2, cur, g.node.Pointers[Len(g.node.Keys) + 1])

\* mutant of rewind: the index of the leaf reached by dive is not decremented
RECURSIVE rewind_NoLeafDecrement(_)
rewind_NoLeafDecrement(bit) ==
    IF Len(bit.steps) > 1
    THEN LET steps1 == Front(bit.steps)
             last == Last(steps1)
         IN  IF last.idx = 0
             THEN rewind_NoLeafDecrement([bit EXCEPT !.steps = steps1])
             ELSE LET g == StoreGet(last.ptr)
                  IN  IF g.err # NoErr
                      THEN [it |-> [bit EXCEPT !.steps = steps1, !.err = g.err], ret |-> FALSE]
                      ELSE LET steps2 == [steps1 EXCEPT ![Len(steps1)].idx = @ - 1]
                               d == dive(steps2, bit.cur,
                                         g.node.Pointers[Last(steps2).idx + 1])
                           IN  [it |-> [bit EXCEPT !.steps = d.steps, !.cur = d.cur,
                                                   !.err = d.err],
                                ret |-> d.err = NoErr]
    ELSE [it |-> bit, ret |-> FALSE]

\* the "rewinding upwards to then dive down" loop of backwardIter.Next
RECURSIVE rewind(_)
rewind(bit) ==
    IF Len(bit.steps) > 1
    THEN LET steps1 == Front(bit.steps)
             last == Last(steps1)
         IN  IF last.idx = 0
             THEN rewind([bit EXCEPT !.steps = steps1])
             ELSE LET g == StoreGet(last.ptr)
                  IN  IF g.err # NoErr
                      THEN [it |-> [bit EXCEPT !.steps = steps1, !.err = g.err], ret |-> FALSE]
                      ELSE LET steps2 == [steps1 EXCEPT ![Len(steps1)].idx = @ - 1]
                               d == dive(steps2, bit.cur,
                                         g.node.Pointers[Last(steps2).idx + 1])
                               steps3 == [d.steps EXCEPT ![Len(d.steps)].idx = @ - 1]
                           IN  [it |-> [bit EXCEPT !.steps = steps3, !.cur = d.cur,
                                                   !.err = d.err],
                                ret |-> d.err = NoErr]
    ELSE [it |-> bit, ret |-> FALSE]

\* backwardIter.Next(): the iterator afterwards and the value returned
backwardNext(bit) ==
    IF bit.err # NoErr THEN [it |-> bit, ret |-> FALSE]
    ELSE IF Len(bit.steps) = 0 THEN [it |-> bit, ret |-> FALSE]
    ELSE IF Last(bit.steps).idx > 0
    THEN [it |-> [bit EXCEPT !.steps[Len(bit.steps)].idx = @ - 1], ret |-> TRUE]
    ELSE rewind(bit)

\* backwardIter.Current()
backwardCurrent(bit) ==
    LET last == Last(bit.steps)
    IN  IF last.idx >= 0 /\ last.idx < Len(bit.cur.Keys) /\ last.idx < Len(bit.cur.Values)
        THEN <<bit.cur.Keys[last.idx + 1], bit.cur.Values[last.idx + 1]>>
        ELSE Panic

\* BTree.ScanAllReverse(): the iterator it returns
ScanAllReverseIter ==
    LET d == dive(<<>>, NilNode, Root)
    IN  IF d.err # NoErr
        THEN FailedIter(d.err)
        ELSE [NoIter EXCEPT !.kind = "bwd", !.steps = d.steps, !.cur = d.cur]

(***************************************************************************)
(* Actions on the B+tree.                                                   *)
(***************************************************************************)
BTInit ==
    /\ store = [p \in {1} |-> NilNode]
    /\ Root = 1
    /\ entries = {}
    /\ bad = Nil
    /\ it = NoIter
    /\ mode = "none"
    /\ fromKey = 0
    /\ yielded = <<>>
    /\ ret = "none"
    /\ extra = 0

Insert(k) ==
    /\ it.kind = "none"
    /\ bad = Nil
    /\ k \notin entries
    /\ LET r == InsertTree(k, ValueOf(k))
       IN  /\ store' = r.store
           /\ Root' = r.Root
    /\ entries' = entries \cup {k}
    /\ UNCHANGED <<bad, it, mode, fromKey, yielded, ret, extra>>

\* the store starts failing on one pointer
InjectFault(p) ==
    /\ it.kind = "none"
    /\ bad = Nil
    /\ bad' = p
    /\ UNCHANGED <<store, Root, entries, it, mode, fromKey, yielded, ret, extra>>

Repair ==
    /\ it.kind = "none"
    /\ bad # Nil
    /\ bad' = Nil
    /\ UNCHANGED <<store, Root, entries, it, mode, fromKey, yielded, ret, extra>>

Open(m, k, iter) ==
    /\ it.kind = "none"
    /\ it' = iter
    /\ mode' = m
    /\ fromKey' = k
    /\ yielded' = <<>>
    /\ ret' = "none"
    /\ extra' = 0
    /\ UNCHANGED <<store, Root, entries, bad>>

ScanAll == Open("all", 0, ScanAllIter)

ScanFrom(key) == Open("from", key, ScanFromIter(key))

ScanAllReverse == Open("rev", 0, ScanAllReverseIter)

\* one turn of `for it.Next() { k, v := it.Current() ... }`
IterNext ==
    /\ it.kind \in {"fwd", "bwd"}
    /\ ret = "false" => extra < MaxExtraNext
    /\ LET r == IF it.kind = "fwd" THEN forwardNext(it) ELSE backwardNext(it)
       IN  /\ it' = r.it
           /\ ret' = IF r.ret THEN "true" ELSE "false"
           /\ yielded' = IF r.ret
                         THEN Append(yielded, IF it.kind = "fwd" THEN forwardCurrent(r.it)
                                              ELSE backwardCurrent(r.it))
                         ELSE yielded
    /\ extra' = IF ret = "false" THEN extra + 1 ELSE extra
    /\ UNCHANGED <<store, Root, entries, bad, mode, fromKey>>

Close ==
    /\ it.kind # "none"
    /\ it' = NoIter
    /\ mode' = "none"
    /\ fromKey' = 0
    /\ yielded' = <<>>
    /\ ret' = "none"
    /\ extra' = 0
    /\ UNCHANGED <<store, Root, entries, bad>>

BTNext ==
    \/ \E k \in 1..MaxKey : Insert(k)
    \/ \E p \in DOMAIN store : InjectFault(p)
    \/ Repair
    \/ ScanAll
    \/ \E k \in 0..(MaxKey + 1) : ScanFrom(k)
    \/ ScanAllReverse
    \/ IterNext
    \/ Close


(***************************************************************************)
(* Ground truth for the iterators.                                          *)
(***************************************************************************)
RECURSIVE SortedSeq(_)
SortedSeq(S) ==
    IF S = {} THEN <<>>
    ELSE LET m == CHOOSE x \in S : \A y \in S : x <= y
         IN  <<m>> \o SortedSeq(S \ {m})

\* the (key, value) pairs the tree stores, in ascending key order
AllPairs == LET ks == SortedSeq(entries) IN [i \in 1..Len(ks) |-> <<ks[i], ValueOf(ks[i])>>]

\* the pairs whose key is >= k, in ascending key order
PairsFrom(k) == LET ks == SortedSeq({e \in entries : e >= k})
                IN  [i \in 1..Len(ks) |-> <<ks[i], ValueOf(ks[i])>>]

\* everything a forward iterator yields when it is run to the end
RECURSIVE DrainForward(_, _)
DrainForward(fit, n) ==
    IF n = 0 THEN <<>>
    ELSE LET r == forwardNext(fit)
         IN  IF r.ret THEN <<forwardCurrent(r.it)>> \o DrainForward(r.it, n - 1) ELSE <<>>

ScanAllSequence == DrainForward(ScanAllIter, MaxKey + 2)

StrictlyAscending(ps) == \A i \in 1..(Len(ps) - 1) : ps[i][1] < ps[i + 1][1]

Height(st, ptr) == Len(findpath(st, ptr, 0))

(***************************************************************************)
(* C1: on a B+tree built by Insert, the iterator of ScanAll yields every    *)
(* stored (key, value) pair exactly once in strictly ascending key order,   *)
(* and then Next returns false with Err() = nil (the store not failing).    *)
(***************************************************************************)
C1_ScanAllYieldsEveryPairAscending ==
    (mode = "all" /\ it.kind = "fwd") =>
        /\ IsPrefixOf(yielded, AllPairs)
        /\ StrictlyAscending(yielded)
        /\ (ret = "false" /\ it.err = NoErr) => yielded = AllPairs
        /\ bad = Nil => it.err = NoErr

C1_Witness ==
    /\ mode = "all" /\ it.kind = "fwd" /\ bad = Nil
    /\ ret = "false" /\ it.err = NoErr
    /\ Len(yielded) >= 4
    /\ Height(store, Root) >= 3

(***************************************************************************)
(* C2: ScanFrom(k) yields exactly the suffix of the ScanAll sequence that   *)
(* starts at the first stored key >= k: nothing when every stored key is    *)
(* < k, and from the first entry of the next leaf when k is greater than    *)
(* every key of the leaf findleaf selects.                                  *)
(***************************************************************************)
KeyPastLeaf ==
    LET fl == findleaf(fromKey)
    IN  /\ fl.err = NoErr
        /\ \A i \in 1..Len(fl.node.Keys) : fl.node.Keys[i] < fromKey
        /\ fl.node.Next # Nil

C2_ScanFromYieldsSuffix ==
    (mode = "from" /\ bad = Nil) =>
        /\ it.kind = "fwd" /\ it.err = NoErr
        /\ IsPrefixOf(yielded, PairsFrom(fromKey))
        /\ ret = "false" => yielded = PairsFrom(fromKey)
        /\ \E n \in 0..Len(ScanAllSequence) :
              /\ PairsFrom(fromKey) = SubSeq(ScanAllSequence, n + 1, Len(ScanAllSequence))
              /\ \A i \in 1..n : ScanAllSequence[i][1] < fromKey
        /\ (ret = "none" /\ KeyPastLeaf) =>
              /\ it.ptr = findleaf(fromKey).node.Next
              /\ it.current = store[it.ptr]
              /\ it.idx = -1
        /\ (ret = "true" /\ Len(yielded) = 1 /\ KeyPastLeaf) =>
              yielded[1] = <<it.current.Keys[1], it.current.Values[1]>>

C2_Witness ==
    /\ mode = "from" /\ bad = Nil /\ it.kind = "fwd"
    /\ KeyPastLeaf
    /\ ret = "false"
    /\ Len(yielded) >= 2
    /\ Len(yielded) < Len(AllPairs)

(***************************************************************************)
(* C3: ScanAllReverse yields exactly the ScanAll sequence in reverse, for a *)
(* root leaf alone and for trees with internal levels, and once the         *)
(* sequence is exhausted every further call of Next returns false.          *)
(***************************************************************************)
C3_ScanAllReverseIsReverse ==
    (mode = "rev" /\ it.kind = "bwd") =>
        /\ IsPrefixOf(yielded, Reverse(AllPairs))
        /\ (ret = "false" /\ it.err = NoErr) =>
              /\ yielded = Reverse(AllPairs)
              /\ bad = Nil => yielded = Reverse(ScanAllSequence)
        /\ extra >= 1 => ret = "false"
        /\ bad = Nil => it.err = NoErr

C3_Witness ==
    /\ mode = "rev" /\ it.kind = "bwd" /\ bad = Nil
    /\ ret = "false" /\ extra = MaxExtraNext
    /\ Len(yielded) >= 4
    /\ Height(store, Root) >= 3

(***************************************************************************)
(* Bytes, checksums and fixed-width integers.                               *)
(* A uint32 is the pair <<hi, lo>> of its 16-bit halves and a 64-bit        *)
(* integer the tuple <<w3, w2, w1, w0>> of its 16-bit words, most           *)
(* significant first (for an int64: the words of its two's complement).     *)
(***************************************************************************)
ChecksumSize == 32
LocationSerializedSize == ChecksumSize + 4 + 4
DeltaEntrySerializedSize == 1 + ChecksumSize + LocationSerializedSize

VERSION == 100
ET_METADATA == 1
ET_LOCATIONS == 2
TYPE_SNAPSHOT == 0

ErrEOF == "EOF"
ErrUnexpectedEOF == "unexpected EOF"
ErrShortRead == "Short read while deserializing delta entry"
ErrPanic == "panic: index out of range"

ZeroChecksum == [i \in 1..ChecksumSize |-> 0]

Take(s, n) == SubSeq(s, 1, IF n < Len(s) THEN n ELSE Len(s))
Drop(s, n) == SubSeq(s, n + 1, Len(s))

\* binary.LittleEndian.PutUint32 / Uint32
PutUint32(v) == <<v[2] % 256, v[2] \div 256, v[1] % 256, v[1] \div 256>>
Uint32(b) == <<b[4] * 256 + b[3], b[2] * 256 + b[1]>>

\* binary.LittleEndian.PutUint64 / Uint64
PutUint64(v) == <<v[4] % 256, v[4] \div 256, v[3] % 256, v[3] \div 256,
                  v[2] % 256, v[2] \div 256, v[1] % 256, v[1] \div 256>>
Uint64(b) == <<b[8] * 256 + b[7], b[6] * 256 + b[5], b[4] * 256 + b[3], b[2] * 256 + b[1]>>

\* uint64(n) of a small non-negative int
Uint64OfInt(n) == <<0, 0, 0, n>>

(***************************************************************************)
(* DeltaEntry and its 73-byte encoding (state.go).                          *)
(***************************************************************************)
ZeroDeltaEntry ==
    [Type |-> 0, Blob |-> ZeroChecksum,
     Location |-> [Packfile |-> ZeroChecksum, Offset |-> <<0, 0>>, Length |-> <<0, 0>>]]

\* variant of ToBytes that writes offset and length most significant byte first
ToBytes_BigEndian(de) ==
    LET body == <<de.Type % 256>> \o de.Blob \o de.Location.Packfile
                \o Reverse(PutUint32(de.Location.Offset))
                \o Reverse(PutUint32(de.Location.Length))
    IN  [i \in 1..DeltaEntrySerializedSize |-> IF i <= Len(body) THEN body[i] ELSE 0]

\* DeltaEntry.ToBytes (through _toBytes)
ToBytes(de) ==
    LET body == <<de.Type % 256>> \o de.Blob \o de.Location.Packfile
                \o PutUint32(de.Location.Offset) \o PutUint32(de.Location.Length)
    IN  [i \in 1..DeltaEntrySerializedSize |-> IF i <= Len(body) THEN body[i] ELSE 0]

\* bytes.Buffer.Read into a checksum-sized array: what is copied, and the rest
ReadChecksum(rest) ==
    Only({[n |-> n,
           err |-> IF Len(rs) = 0 THEN ErrEOF ELSE NoErr,
           sum |-> [i \in 1..ChecksumSize |-> IF i <= n THEN rs[i] ELSE 0],
           rest |-> Drop(rs, n)] :
          rs \in {rest},
          n \in {IF Len(rest) < ChecksumSize THEN Len(rest) ELSE ChecksumSize}})

\* DeltaEntryFromBytes(buf): the entry and the error
DeltaEntryFromBytes(buf) ==
    IF Len(buf) = 0 THEN [de |-> ZeroDeltaEntry, err |-> ErrEOF]
    ELSE Only({
        IF rb.err # NoErr THEN [de |-> d1, err |-> rb.err]
        ELSE IF rb.n < ChecksumSize
        THEN [de |-> [d1 EXCEPT !.Blob = rb.sum], err |-> ErrShortRead]
        ELSE Only({
            IF rp.err # NoErr THEN [de |-> d2, err |-> rp.err]
            ELSE IF rp.n < ChecksumSize
            THEN [de |-> [d2 EXCEPT !.Location.Packfile = rp.sum], err |-> ErrShortRead]
            ELSE Only({
                IF Len(rp.rest) < 4 THEN [de |-> d3, err |-> ErrPanic]
                ELSE Only({
                    IF Len(r4) < 4 THEN [de |-> d4, err |-> ErrPanic]
                    ELSE [de |-> [d4 EXCEPT !.Location.Length = Uint32(Take(r4, 4))],
                          err |-> NoErr] :
                    d4 \in {[d3 EXCEPT !.Location.Offset = Uint32(Take(rp.rest, 4))]},
                    r4 \in {Drop(rp.rest, 4)}}) :
                d3 \in {[d2 EXCEPT !.Location.Packfile = rp.sum]}}) :
            rp \in {ReadChecksum(rb.rest)}, d2 \in {[d1 EXCEPT !.Blob = rb.sum]}}) :
        d1 \in {[ZeroDeltaEntry EXCEPT !.Type = buf[1]]}, rb \in {ReadChecksum(Tail(buf))}})

(***************************************************************************)
(* The repository cache (caching/repository.go): a key/value store whose    *)
(* keys are byte strings, iterated in bytewise order.  A key is the         *)
(* sequence of its character codes.                                         *)
(***************************************************************************)
StatePrefix == <<95, 95, 115, 116, 97, 116, 101, 95, 95>>    \* "__state__"
DeltaPrefix == <<95, 95, 100, 101, 108, 116, 97, 95, 95>>    \* "__delta__"
ColonStr == <<58>>                                           \* ":"

NilBytes == <<-1>>      \* a nil []byte

HexDigit(n) == IF n < 10 THEN 48 + n ELSE 87 + n

\* fmt.Sprintf("%x", bytes)
SprintfX(b) ==
    [i \in 1..(2 * Len(b)) |->
        IF i % 2 = 1 THEN HexDigit(b[(i + 1) \div 2] \div 16)
        ELSE HexDigit(b[i \div 2] % 16)]

\* fmt.Sprintf("%d", n)
RECURSIVE SprintfD(_)
SprintfD(n) == IF n < 10 THEN <<48 + n>> ELSE SprintfD(n \div 10) \o <<48 + (n % 10)>>

FromHexDigit(c) ==
    IF c >= 48 /\ c <= 57 THEN c - 48
    ELSE IF c >= 97 /\ c <= 102 THEN c - 87
    ELSE IF c >= 65 /\ c <= 70 THEN c - 55
    ELSE -1

\* hex.DecodeString(s): the bytes decoded before the first invalid character
HexDecode(str) ==
    LET pairs == Len(str) \div 2
        invalid == {i \in 1..pairs : FromHexDigit(str[2 * i - 1]) < 0
                                     \/ FromHexDigit(str[2 * i]) < 0}
        n == IF invalid = {} THEN pairs
             ELSE (CHOOSE i \in invalid : \A j \in invalid : i <= j) - 1
    IN  [i \in 1..n |-> FromHexDigit(str[2 * i - 1]) * 16 + FromHexDigit(str[2 * i])]

\* objects.Checksum(slice): a panic when the slice is shorter than a checksum
ChecksumOfSlice(b) == IF Len(b) < ChecksumSize THEN NilBytes ELSE Take(b, ChecksumSize)

\* bytes.LastIndexByte(key, ':') (1-based; 0 when there is none)
LastIndexByte(key, c) ==
    LET at == {i \in 1..Len(key) : key[i] = c}
    IN  IF at = {} THEN 0 ELSE CHOOSE i \in at : \A j \in at : j <= i

\* bytes.Compare(a, b) < 0: decided by the first position where the two differ,
\* and by the lengths when one is a prefix of the other
LexLess(a, b) ==
    Only({IF differ = {} THEN Len(a) < Len(b)
          ELSE Only({a[i] < b[i] : i \in {CHOOSE i \in differ : \A j \in differ : i <= j}}) :
          differ \in {{i \in 1..(IF Len(a) < Len(b) THEN Len(a) ELSE Len(b)) : a[i] # b[i]}}})

HasPrefix(str, prefix) == IsPrefixOf(prefix, str)

\* fmt.Sprintf("%s:%s", prefix, key)
FullKey(prefix, key) == prefix \o ColonStr \o key

EmptyDb == [k \in {} |-> <<>>]

\* variant of put that keeps the value of a key already present
put_IfAbsent(c, prefix, key, data) ==
    Only({IF fk \in DOMAIN c THEN c
          ELSE [k \in (DOMAIN c) \cup {fk} |-> IF k = fk THEN data ELSE c[k]] :
          fk \in {FullKey(prefix, key)}})

put(c, prefix, key, data) ==
    Only({[k \in (DOMAIN db0) \cup {fk} |-> IF k = fk THEN val ELSE db0[k]] :
          fk \in {FullKey(prefix, key)}, db0 \in {c}, val \in {data}})

has(c, prefix, key) == FullKey(prefix, key) \in DOMAIN c

get(c, prefix, key) ==
    Only({IF fk \in DOMAIN c THEN c[fk] ELSE NilBytes : fk \in {FullKey(prefix, key)}})

\* variant of delete that drops every key that starts with the key given
delete_Prefixed(c, prefix, key) ==
    [k \in {j \in DOMAIN c : ~HasPrefix(j, Take(FullKey(prefix, key), Len(prefix) + 1))} |-> c[k]]

delete(c, prefix, key) == [k \in (DOMAIN c) \ {FullKey(prefix, key)} |-> c[k]]

PutState(c, stateID, data) == put(c, StatePrefix, SprintfX(stateID), data)

HasState(c, stateID) == has(c, StatePrefix, SprintfX(stateID))

DelState(c, stateID) == delete(c, StatePrefix, SprintfX(stateID))

\* variant of the delta key that leaves the blob type out
DeltaKey_NoType(blobType, blobCsum) == SprintfD(0) \o ColonStr \o SprintfX(blobCsum)

DeltaKey(blobType, blobCsum) == SprintfD(blobType) \o ColonStr \o SprintfX(blobCsum)

GetDelta(c, blobType, blobCsum) == get(c, DeltaPrefix, DeltaKey(blobType, blobCsum))

\* variant of HasDelta that looks the checksum up under any blob type
HasDelta_AnyType(c, blobType, blobCsum) ==
    \E k \in DOMAIN c :
        /\ HasPrefix(k, DeltaPrefix \o ColonStr)
        /\ Len(k) >= 2 * ChecksumSize
        /\ SubSeq(k, Len(k) - 2 * ChecksumSize + 1, Len(k)) = SprintfX(blobCsum)

HasDelta(c, blobType, blobCsum) == has(c, DeltaPrefix, DeltaKey(blobType, blobCsum))

CachePutDelta(c, blobType, blobCsum, data) ==
    put(c, DeltaPrefix, DeltaKey(blobType, blobCsum), data)

\* the keys of the store in the order of a leveldb iterator: each key comes after
\* as many keys as are smaller than it
SortKeys(S) ==
    Only({[i \in 1..Cardinality(S) |-> CHOOSE k \in S : before[k] = i - 1] :
          before \in {[k \in S |-> Cardinality({j \in S : LexLess(j, k)})]}})

RECURSIVE TakeWhilePrefix(_, _)
TakeWhilePrefix(ks, prefix) ==
    IF ks = <<>> THEN <<>>
    ELSE IF ~HasPrefix(Head(ks), prefix) THEN <<>>
    ELSE <<Head(ks)>> \o TakeWhilePrefix(Tail(ks), prefix)

\* for iter.Seek(prefix); iter.Valid(); iter.Next() { if !HasPrefix(key, prefix) break; ... }
SeekLoop(c, prefix) ==
    Only({Only({TakeWhilePrefix(ks, p) : ks \in {SortKeys(from)}}) :
          p \in {prefix}, from \in {{k \in DOMAIN c : ~LexLess(k, prefix)}}})

\* what the loops of GetDeltasByType and GetDeltas yield for the keys they visit
YieldDeltas(c, ks) ==
    Only({[i \in 1..Len(keys) |->
              [csum |-> ChecksumOfSlice(HexDecode(Drop(keys[i], LastIndexByte(keys[i], 58)))),
               data |-> c[keys[i]]]] :
          keys \in {ks}})

GetStates(c) ==
    Only({[i \in 1..Len(ks) |-> ChecksumOfSlice(HexDecode(Drop(ks[i], Len(StatePrefix) + 1)))] :
          ks \in {SeekLoop(c, StatePrefix \o ColonStr)}})

GetDeltasByType(c, blobType) ==
    YieldDeltas(c, SeekLoop(c, DeltaPrefix \o ColonStr \o SprintfD(blobType)))

GetDeltas(c) == YieldDeltas(c, SeekLoop(c, DeltaPrefix \o ColonStr))

(***************************************************************************)
(* LocalState (repository/state/state.go).                                  *)
(***************************************************************************)
ErrEntryType == "failed to read entry type"
ErrDeltaRead == "failed to read delta entry"
ErrDeltaDecode == "failed to deserialize delta entry"
ErrVersion == "failed to read version"
ErrTimestamp == "failed to read timestamp"
ErrAggregate == "failed to read aggregate flag"
ErrExtendsLen == "failed to read extends length"
ErrChecksum == "failed to read checksum"

ZeroMetadata ==
    [Version |-> <<0, 0>>, Timestamp |-> <<0, 0, 0, 0>>, Aggregate |-> FALSE, Extends |-> <<>>]

RECURSIVE Concat(_)
Concat(ss) == IF ss = <<>> THEN <<>> ELSE Head(ss) \o Concat(Tail(ss))

\* the metadata record as SerializeToStream writes it after the ET_METADATA tag
MetadataRecord(md) ==
    PutUint32(md.Version) \o PutUint64(md.Timestamp)
    \o (IF md.Aggregate THEN <<1>> ELSE <<0>>)
    \o PutUint64(Uint64OfInt(Len(md.Extends)))
    \o Concat(md.Extends)

\* Metadata.ToBytes (msgpack.Marshal): an injective encoding of the four fields
MetadataToBytes(md) == MetadataRecord(md)

\* LocalState.SerializeToStream: the bytes written to w
SerializeToStream(c, md) ==
    Only({Only({Concat(recs) : recs \in {[i \in 1..Len(ds) |-> <<ET_LOCATIONS>> \o ds[i].data]}})
          \o <<ET_METADATA>> \o MetadataRecord(md) :
          ds \in {GetDeltas(c)}})

\* io.ReadFull(r, buf) for a buffer of n bytes, pos bytes of r being consumed already
ReadFull(r, pos, n) ==
    Only({IF Len(r) - at >= n
          THEN [err |-> NoErr, data |-> SubSeq(r, at + 1, at + n), pos |-> at + n]
          ELSE [err |-> IF Len(r) <= at THEN ErrEOF ELSE ErrUnexpectedEOF,
                data |-> SubSeq(r, at + 1, Len(r)),
                pos |-> Len(r)] :
          at \in {pos}})

\* the "Deserialize LOCATIONS" loop of deserializeFromStream
RECURSIVE ReadLocations(_, _, _)
ReadLocations(c, r, pos) ==
    IF pos >= Len(r) THEN [db |-> c, err |-> ErrEntryType, pos |-> pos]
    ELSE IF r[pos + 1] = ET_METADATA THEN [db |-> c, err |-> NoErr, pos |-> pos + 1]
    ELSE Only({
        IF f.err # NoErr THEN [db |-> c, err |-> ErrDeltaRead, pos |-> f.pos]
        ELSE Only({
            IF d.err # NoErr THEN [db |-> c, err |-> ErrDeltaDecode, pos |-> f.pos]
            ELSE Only({ReadLocations(c1, r, f.pos) :
                       c1 \in {CachePutDelta(c, d.de.Type, d.de.Blob, f.data)}}) :
            d \in {DeltaEntryFromBytes(f.data)}}) :
        f \in {ReadFull(r, pos + 1, DeltaEntrySerializedSize)}})

\* variant of the extends loop that fills the list from its last slot
RECURSIVE ReadExtends_Reversed(_, _, _, _)
ReadExtends_Reversed(r, pos, ext, i) ==
    IF i > Len(ext) THEN [err |-> NoErr, ext |-> ext, pos |-> pos]
    ELSE Only({
        IF f.err # NoErr THEN [err |-> ErrChecksum, ext |-> ext, pos |-> f.pos]
        ELSE Only({ReadExtends_Reversed(r, f.pos, e1, i1) :
                   e1 \in {[ext EXCEPT ![Len(ext) + 1 - i] = f.data]}, i1 \in {i + 1}}) :
        f \in {ReadFull(r, pos, ChecksumSize)}})

\* the loop reading the extends checksums into the slice made for them
RECURSIVE ReadExtends(_, _, _, _)
ReadExtends(r, pos, ext, i) ==
    IF i > Len(ext) THEN [err |-> NoErr, ext |-> ext, pos |-> pos]
    ELSE Only({
        IF f.err # NoErr THEN [err |-> ErrChecksum, ext |-> ext, pos |-> f.pos]
        ELSE Only({ReadExtends(r, f.pos, e1, i1) :
                   e1 \in {[ext EXCEPT ![i] = f.data]}, i1 \in {i + 1}}) :
        f \in {ReadFull(r, pos, ChecksumSize)}})

\* the "Deserialize Metadata" part of deserializeFromStream
ReadMetadata(md, r, pos) ==
    Only({
    IF fv.err # NoErr THEN [Metadata |-> md, err |-> ErrVersion, pos |-> fv.pos]
    ELSE Only({
    IF ft.err # NoErr THEN [Metadata |-> m1, err |-> ErrTimestamp, pos |-> ft.pos]
    ELSE Only({
    IF fa.err # NoErr THEN [Metadata |-> m2, err |-> ErrAggregate, pos |-> fa.pos]
    ELSE Only({
    IF fl.err # NoErr THEN [Metadata |-> m3, err |-> ErrExtendsLen, pos |-> fl.pos]
    ELSE Only({
    IF n[1] # 0 \/ n[2] # 0 \/ n[3] # 0
    THEN [Metadata |-> m3, err |-> ErrPanic, pos |-> fl.pos]
    ELSE Only({[Metadata |-> [m3 EXCEPT !.Extends = e.ext], err |-> e.err, pos |-> e.pos] :
               e \in {ReadExtends(r, fl.pos, [i \in 1..n[4] |-> ZeroChecksum], 1)}}) :
    n \in {Uint64(fl.data)}}) :
    m3 \in {[m2 EXCEPT !.Aggregate = (fa.data[1] = 1)]}, fl \in {ReadFull(r, fa.pos, 8)}}) :
    m2 \in {[m1 EXCEPT !.Timestamp = Uint64(ft.data)]}, fa \in {ReadFull(r, ft.pos, 1)}}) :
    m1 \in {[md EXCEPT !.Version = Uint32(fv.data)]}, ft \in {ReadFull(r, fv.pos, 8)}}) :
    fv \in {ReadFull(r, pos, 4)}})

\* LocalState.deserializeFromStream: the cache, ls.Metadata, the error and the
\* number of bytes of r consumed
deserializeFromStream(c, md, r) ==
    Only({IF l.err # NoErr
          THEN [db |-> l.db, Metadata |-> md, err |-> l.err, pos |-> l.pos]
          ELSE Only({[db |-> l.db, Metadata |-> m.Metadata, err |-> m.err, pos |-> m.pos] :
                     m \in {ReadMetadata(md, r, l.pos)}}) :
          l \in {ReadLocations(c, r, 0)}})

\* FromStream(rd, cache)
FromStreamOp(c, r) == deserializeFromStream(c, ZeroMetadata, r)

\* variant of InsertState without the HasState early return
InsertStateOp_NoHasCheck(c, md, stateID, r) ==
    Only({IF d.err # NoErr THEN d
          ELSE [d EXCEPT !.db = PutState(d.db, stateID, MetadataToBytes(d.Metadata))] :
          d \in {deserializeFromStream(c, md, r)}})

\* variant of InsertState that records the state before reading its stream
InsertStateOp_PublishFirst(c, md, stateID, r) ==
    IF HasState(c, stateID)
    THEN [db |-> c, Metadata |-> md, err |-> NoErr, pos |-> 0]
    ELSE deserializeFromStream(PutState(c, stateID, MetadataToBytes(md)), md, r)

\* LocalState.InsertState(stateID, rd)
InsertStateOp(c, md, stateID, r) ==
    IF HasState(c, stateID)
    THEN [db |-> c, Metadata |-> md, err |-> NoErr, pos |-> 0]
    ELSE Only({IF d.err # NoErr THEN d
               ELSE [d EXCEPT !.db = PutState(d.db, stateID, MetadataToBytes(d.Metadata))] :
               d \in {deserializeFromStream(c, md, r)}})

\* LocalState.PutDelta(de)
PutDeltaOp(c, de) == CachePutDelta(c, de.Type, de.Blob, ToBytes(de))

\* LocalState.SetPackfileForBlob
SetPackfileForBlob(c, Type, packfileChecksum, blobChecksum, packfileOffset, chunkLength) ==
    PutDeltaOp(c, [Type |-> Type, Blob |-> blobChecksum,
                   Location |-> [Packfile |-> packfileChecksum, Offset |-> packfileOffset,
                                 Length |-> chunkLength]])

\* LocalState.BlobExists
BlobExists(c, Type, blobChecksum) == HasDelta(c, Type, blobChecksum)

\* LocalState.GetSubpartForBlob
GetSubpartForBlob(c, Type, blobChecksum) ==
    Only({IF delta = NilBytes
          THEN [Packfile |-> ZeroChecksum, Offset |-> <<0, 0>>, Length |-> <<0, 0>>,
                found |-> FALSE]
          ELSE Only({[Packfile |-> de.Location.Packfile, Offset |-> de.Location.Offset,
                      Length |-> de.Location.Length, found |-> TRUE] :
                     de \in {DeltaEntryFromBytes(delta).de}}) :
          delta \in {GetDelta(c, Type, blobChecksum)}})

\* LocalState.ListSnapshots: the checksums yielded
ListSnapshots(c) ==
    Only({[i \in 1..Len(ds) |-> ds[i].csum] : ds \in {GetDeltasByType(c, TYPE_SNAPSHOT)}})

\* LocalState.ListObjectsOfType: the (entry, error) pairs yielded
ListObjectsOfType(c, Type) ==
    Only({[i \in 1..Len(ds) |-> DeltaEntryFromBytes(ds[i].data)] :
          ds \in {GetDeltasByType(c, Type)}})

(***************************************************************************)
(* Inputs of the state model.                                               *)
(***************************************************************************)
Csum(first, last) ==
    [i \in 1..ChecksumSize |-> IF i = 1 THEN first ELSE IF i = ChecksumSize THEN last ELSE 0]

BlobA == Csum(0, 171)
BlobB == Csum(16, 9)
PackP == Csum(255, 0)
PackQ == Csum(1, 2)

TYPE_CHUNK == 1
BlobTypes == {TYPE_SNAPSHOT, TYPE_CHUNK, 10}
Blobs == {BlobA, BlobB}

Loc1 == [Packfile |-> PackP, Offset |-> <<0, 258>>, Length |-> <<1, 0>>]
Loc2 == [Packfile |-> PackQ, Offset |-> <<65535, 65535>>, Length |-> <<0, 255>>]

Entry(t, b, l) == [Type |-> t, Blob |-> b, Location |-> l]

\* the entries PutDelta is called with
PutInputs ==
    {Entry(TYPE_CHUNK, BlobA, Loc1), Entry(TYPE_CHUNK, BlobA, Loc2),
     Entry(10, BlobA, Loc1)}

\* NewLocalState: the metadata of a fresh state (time.Now() is some instant)
NewMetadata ==
    [Version |-> <<0, VERSION>>, Timestamp |-> <<6100, 12345, 54321, 777>>,
     Aggregate |-> FALSE, Extends |-> <<>>]

RECURSIVE PutAll(_, _)
PutAll(c, des) ==
    IF des = {} THEN c
    ELSE LET de == CHOOSE x \in des : TRUE IN PutAll(PutDeltaOp(c, de), des \ {de})

\* a state file: the stream SerializeToStream wrote for a state holding `des`,
\* of which the reader delivers all but the last `cut` bytes
StateFile(id, des, md, cut) ==
    LET full == SerializeToStream(PutAll(EmptyDb, des), md)
    IN  [id |-> id, entries |-> des, md |-> md, cut |-> cut,
         rd |-> SubSeq(full, 1, Len(full) - cut)]

IdA == Csum(1, 10)
IdB == Csum(2, 10)
IdC == Csum(3, 10)
IdT == Csum(4, 10)

\* the state files InsertState is called with: A and B hold distinct deltas, C
\* holds a delta for a key of A, T is a truncated file
InputStates ==
    <<StateFile(IdA, {Entry(TYPE_CHUNK, BlobB, Loc1), Entry(10, BlobB, Loc2)},
                [NewMetadata EXCEPT !.Timestamp = <<65535, 65535, 65535, 65535>>], 0),
      StateFile(IdB, {Entry(TYPE_SNAPSHOT, BlobA, Loc2)},
                [NewMetadata EXCEPT !.Aggregate = TRUE, !.Extends = <<IdC, IdA>>], 0),
      StateFile(IdC, {Entry(TYPE_CHUNK, BlobB, Loc2)},
                [NewMetadata EXCEPT !.Timestamp = <<0, 0, 1, 0>>], 0),
      StateFile(IdT, {Entry(TYPE_SNAPSHOT, BlobB, Loc2)}, NewMetadata, 5)>>

NoStream == <<-1>>
NoPeer == [db |-> EmptyDb, Metadata |-> ZeroMetadata, err |-> "none", pos |-> 0]
NoOp == [op |-> "none", arg |-> <<>>, res |-> <<>>, twice |-> FALSE]

\* the entries of `ins` with the one of de's key replaced by de
Upsert(ins, de) == {e \in ins : e.Type # de.Type \/ e.Blob # de.Blob} \cup {de}

RECURSIVE UpsertAll(_, _)
UpsertAll(ins, des) ==
    IF des = {} THEN ins
    ELSE LET de == CHOOSE x \in des : TRUE IN UpsertAll(Upsert(ins, de), des \ {de})

(***************************************************************************)
(* Actions on the local state.                                              *)
(***************************************************************************)
STInit ==
    /\ db = EmptyDb
    /\ Metadata = NewMetadata
    /\ w = NoStream
    /\ peer = NoPeer
    /\ lastOp = NoOp
    /\ inserted = {}
    /\ files = InputStates

QueryOps == {"BlobExists", "GetSubpartForBlob", "ListSnapshots", "ListObjectsOfType"}

\* an operation may start: no buffer is pending, and the last operation was not a
\* query (a query changes nothing that a later operation reads, so the scenario
\* ends with it)
Ready == w = NoStream /\ lastOp.op \notin QueryOps

Op(name, arg, res) ==
    [op |-> name, arg |-> arg, res |-> res,
     twice |-> lastOp.op = name /\ lastOp.arg = arg]

PutDelta(de) ==
    /\ Ready
    /\ db' = PutDeltaOp(db, de)
    /\ inserted' = Upsert(inserted, de)
    /\ lastOp' = Op("PutDelta", de, NoErr)
    /\ UNCHANGED <<Metadata, w, peer, files>>

InsertState(i) ==
    /\ Ready
    /\ \E r \in {InsertStateOp(db, Metadata, files[i].id, files[i].rd)} :
           /\ db' = r.db
           /\ Metadata' = r.Metadata
           /\ lastOp' = Op("InsertState", <<i>>, [err |-> r.err, pos |-> r.pos])
           /\ inserted' = IF r.pos = 0 THEN inserted
                          ELSE UpsertAll(inserted, files[i].entries)
    /\ UNCHANGED <<w, peer, files>>

DoBlobExists(t, b) ==
    /\ Ready
    /\ lastOp' = Op("BlobExists", <<t, b>>, BlobExists(db, t, b))
    /\ UNCHANGED <<db, Metadata, w, peer, inserted, files>>

DoGetSubpartForBlob(t, b) ==
    /\ Ready
    /\ lastOp' = Op("GetSubpartForBlob", <<t, b>>, GetSubpartForBlob(db, t, b))
    /\ UNCHANGED <<db, Metadata, w, peer, inserted, files>>

DoListSnapshots ==
    /\ Ready
    /\ lastOp' = Op("ListSnapshots", <<>>, ListSnapshots(db))
    /\ UNCHANGED <<db, Metadata, w, peer, inserted, files>>

DoListObjectsOfType(t) ==
    /\ Ready
    /\ lastOp' = Op("ListObjectsOfType", <<t>>, ListObjectsOfType(db, t))
    /\ UNCHANGED <<db, Metadata, w, peer, inserted, files>>

\* ls.SerializeToStream(w) into a fresh buffer
DoSerializeToStream ==
    /\ Ready
    /\ w' = SerializeToStream(db, Metadata)
    /\ lastOp' = Op("SerializeToStream", <<>>, NoErr)
    /\ UNCHANGED <<db, Metadata, peer, inserted, files>>

\* FromStream(w, cache) with an empty cache
DoFromStream ==
    /\ w # NoStream
    /\ peer = NoPeer
    /\ peer' = FromStreamOp(EmptyDb, w)
    /\ lastOp' = Op("FromStream", <<>>, NoErr)
    /\ UNCHANGED <<db, Metadata, w, inserted, files>>

\* the buffer and the state read from it are dropped
Discard ==
    /\ w # NoStream
    /\ w' = NoStream
    /\ peer' = NoPeer
    /\ lastOp' = NoOp
    /\ UNCHANGED <<db, Metadata, inserted, files>>

STNext ==
    \/ \E de \in PutInputs : PutDelta(de)
    \/ \E i \in 1..Len(files) : InsertState(i)
    \/ \E t \in BlobTypes, b \in Blobs : DoBlobExists(t, b)
    \/ \E t \in BlobTypes, b \in Blobs : DoGetSubpartForBlob(t, b)
    \/ DoListSnapshots
    \/ \E t \in BlobTypes : DoListObjectsOfType(t)
    \/ DoSerializeToStream
    \/ DoFromStream
    \/ Discard

(***************************************************************************)
(* The delta entry codec on its own: encode an entry, possibly lose the     *)
(* tail of the buffer, decode.                                              *)
(***************************************************************************)
CodecInputs ==
    {Entry(t, b, [Packfile |-> pk, Offset |-> o, Length |-> l]) :
        t \in {0, 1, 10, 255}, b \in Blobs \cup {PackP}, pk \in {PackP, PackQ},
        o \in {<<0, 0>>, <<0, 258>>, <<65535, 65535>>},
        l \in {<<1, 0>>, <<32768, 1>>}}

CutLengths == {0, 1, 20, 33, 50, 65, 68, 69, 72}

CDInit ==
    /\ cde \in CodecInputs
    /\ cbuf = <<>>
    /\ cdec = [de |-> ZeroDeltaEntry, err |-> "none"]
    /\ cpc = "start"

CodecToBytes ==
    /\ cpc = "start"
    /\ cbuf' = ToBytes(cde)
    /\ cpc' = "encoded"
    /\ UNCHANGED <<cde, cdec>>

CodecTruncate(n) ==
    /\ cpc = "encoded"
    /\ cbuf' = Take(cbuf, n)
    /\ cpc' = "cut"
    /\ UNCHANGED <<cde, cdec>>

CodecFromBytes ==
    /\ cpc \in {"encoded", "cut"}
    /\ cdec' = DeltaEntryFromBytes(cbuf)
    /\ cpc' = IF cpc = "encoded" THEN "decoded" ELSE "decodedcut"
    /\ UNCHANGED <<cde, cbuf>>

CDNext ==
    \/ CodecToBytes
    \/ \E n \in CutLengths : CodecTruncate(n)
    \/ CodecFromBytes

(***************************************************************************)
(* sync: cmd_sync and synchronize.  A repository is the set of snapshots it *)
(* lists and the set of blobs BlobExists answers true for; Load, Clone,     *)
(* the list iterators, GetBlob, PutBlob, VisitNodes and Commit belong to    *)
(* packages outside this source tree and are modelled by their contract:    *)
(* each may succeed or fail, PutBlob makes the blob exist in its            *)
(* repository and Commit makes the snapshot listed.                         *)
(***************************************************************************)
SnapshotNames == {1, 2, 3}

\* the objects.Checksum of each snapshot
SnapshotID(n) == IF n = 1 THEN Csum(1, 10) ELSE IF n = 2 THEN Csum(16, 9) ELSE Csum(18, 0)

\* hex.EncodeToString
EncodeToString(b) == SprintfX(b)

\* the snapshot id arguments: none, "1", "01"
SnapshotPrefixes == {<<>>, <<49>>, <<48, 49>>}

Directions == {"to", "from", "with", "sideways"}

\* the blob types synchronize walks, in its order
PhaseTypes == <<"chunk", "object", "vfs_entry", "vfs", "data">>

\* the blobs each snapshot references: chunks, objects, VFS entries, VFS
\* nodes and datas, in the order its iterators yield them
Content(n) ==
    IF n = 1 THEN << <<1>>, <<1>>, <<1>>, <<1>>, <<1>> >>
    ELSE IF n = 2 THEN << <<1, 2>>, <<>>, <<2>>, <<1, 2>>, <<>> >>
    ELSE << <<>>, <<1>>, <<3>>, <<3>>, <<1>> >>

BlobsOf(n) ==
    UNION {{<<PhaseTypes[p], Content(n)[p][i]>> : i \in 1..Len(Content(n)[p])} : p \in 1..5}

\* a repository holding the snapshots S and what they reference
RepositoryOf(S) == [snapshots |-> S, blobs |-> UNION {BlobsOf(n) : n \in S}]

NoSync == [src |-> "none", id |-> 0, phase |-> 0, idx |-> 0]
NoReturn == [status |-> -1, err |-> "none"]

ErrLoad == "snapshot.Load"
ErrClone == "snapshot.Clone"
ErrList == "list"
ErrIter == "iterator"
ErrGetBlob == "GetBlob"
ErrCommit == "Commit"
ErrGetSnapshots == "GetSnapshots"

\* Repository.GetSnapshots
GetSnapshots(r) == r.snapshots

\* Repository.BlobExists
Repository_BlobExists(r, Type, checksum) == <<Type, checksum>> \in r.blobs

Lacks_Always(r, Type, checksum) == TRUE

\* synchronize: the test that guards every GetBlob and PutBlob
Lacks(r, Type, checksum) == ~Repository_BlobExists(r, Type, checksum)

\* Snapshot.PutBlob on a snapshot of repository r
PutBlob(r, Type, checksum) == [r EXCEPT !.blobs = @ \cup {<<Type, checksum>>}]

\* Snapshot.Commit on the clone of snapshot id in repository r
Commit(r, id) == [r EXCEPT !.snapshots = @ \cup {id}]

\* cmd_sync: the repositories the direction selects
srcRepository == IF syargs.direction = "from" THEN "peerRepository" ELSE "repo"
dstRepository == IF syargs.direction = "from" THEN "repo" ELSE "peerRepository"

SyncList_IgnorePrefix(srcSnapshotsMap, dstSnapshotsMap, syncSnapshotID) ==
    srcSnapshotsMap \ dstSnapshotsMap

\* cmd_sync: the loop that fills srcSyncList (and dstSyncList, maps swapped)
SyncList(srcSnapshotsMap, dstSnapshotsMap, syncSnapshotID) ==
    {snapshotID \in srcSnapshotsMap :
        /\ syncSnapshotID # <<>> =>
              HasPrefix(EncodeToString(SnapshotID(snapshotID)), syncSnapshotID)
        /\ snapshotID \notin dstSnapshotsMap}

\* the orders in which ranging over a map may yield the set S
Orders(S) == {s \in [1..Cardinality(S) -> S] : {s[i] : i \in 1..Cardinality(S)} = S}

SecondPass_Never(direction) == FALSE

\* cmd_sync: the second loop runs for direction with
SecondPass(direction) == direction = "with"

NextAfter_AbortOnError(err, i, n) == IF err # NoErr THEN n + 1 ELSE i + 1

\* cmd_sync: the loops log the error of synchronize and go on to the next snapshot
NextAfter(err, i, n) == i + 1

CurSyncList == IF sypc = "pass2" THEN dstSyncList ELSE srcSyncList

\* cmd_sync up to the first loop
CmdSyncStart(fault) ==
    /\ sypc = "start"
    /\ fault # "none" => syfaults < MaxFaults
    /\ syfaults' = IF fault = "none" THEN syfaults ELSE syfaults + 1
    /\ IF syargs.direction \notin {"to", "from", "with"}
       THEN /\ fault = "none"
            /\ syret' = [status |-> 1, err |-> NoErr]
            /\ sypc' = "done"
            /\ UNCHANGED <<srcSyncList, synext, symaps>>
       ELSE IF fault # "none"
       THEN /\ syret' = [status |-> 1, err |-> ErrGetSnapshots]
            /\ sypc' = "done"
            /\ UNCHANGED <<srcSyncList, synext, symaps>>
       ELSE /\ \E order \in Orders(SyncList(GetSnapshots(repos[srcRepository]),
                                             GetSnapshots(repos[dstRepository]),
                                             syargs.syncSnapshotID)) :
                 srcSyncList' = order
            /\ symaps' = [src |-> GetSnapshots(repos[srcRepository]),
                          dst |-> GetSnapshots(repos[dstRepository])]
            /\ sypc' = "pass1"
            /\ synext' = 1
            /\ UNCHANGED syret
    /\ UNCHANGED <<repos, syargs, dstSyncList, sy, syncerrs, sylog, sybefore>>

\* the source and the destination of the running synchronize
From == IF sypc = "pass2" THEN dstRepository ELSE srcRepository
To == IF sypc = "pass2" THEN srcRepository ELSE dstRepository

\* synchronize returns err to the loop of cmd_sync
Return(err) ==
    /\ syncerrs' = Append(syncerrs, [src |-> From, id |-> CurSyncList[synext], err |-> err])
    /\ sy' = NoSync
    /\ synext' = NextAfter(err, synext, Len(CurSyncList))

\* synchronize: snapshot.Load and snapshot.Clone
SyncBegin(fault) ==
    /\ sypc \in {"pass1", "pass2"} /\ sy = NoSync /\ synext <= Len(CurSyncList)
    /\ fault # NoErr => syfaults < MaxFaults
    /\ syfaults' = IF fault = NoErr THEN syfaults ELSE syfaults + 1
    /\ IF fault # NoErr
       THEN Return(fault)
       ELSE /\ sy' = [src |-> From, id |-> CurSyncList[synext], phase |-> 1, idx |-> 0]
            /\ UNCHANGED <<syncerrs, synext>>
    /\ UNCHANGED <<repos, syargs, sypc, srcSyncList, dstSyncList, syret, sylog, sybefore, symaps>>

CurList == Content(sy.id)[sy.phase]

\* on to the next element of the list, or past its end
Advance(s) ==
    IF s.idx < Len(Content(s.id)[s.phase]) THEN [s EXCEPT !.idx = @ + 1]
    ELSE [s EXCEPT !.phase = @ + 1, !.idx = 0]

\* synchronize: ListChunks, ListObjects, Filesystem and FileChecksums fail or
\* give an iterator; VisitNodes and ListDatas start their walk
SyncOpen(fault) ==
    /\ sy # NoSync /\ sy.phase \in 1..5 /\ sy.idx = 0
    /\ fault => sy.phase \in 1..3 /\ syfaults < MaxFaults
    /\ syfaults' = IF fault THEN syfaults + 1 ELSE syfaults
    /\ IF fault
       THEN Return(ErrList)
       ELSE /\ sy' = Advance(sy)
            /\ UNCHANGED <<syncerrs, synext>>
    /\ UNCHANGED <<repos, syargs, sypc, srcSyncList, dstSyncList, syret, sylog, sybefore, symaps>>

\* synchronize: one turn of a loop body (for VFS nodes, one call of the
\* callback given to VisitNodes, whose result synchronize drops)
SyncBlob(o) ==
    /\ sy # NoSync /\ sy.phase \in 1..5 /\ sy.idx >= 1
    /\ o # "ok" => syfaults < MaxFaults
    /\ syfaults' = IF o = "ok" THEN syfaults ELSE syfaults + 1
    /\ \E Type \in {PhaseTypes[sy.phase]}, checksum \in {CurList[sy.idx]} :
        \E had \in {repos[To].blobs \cap {<<Type, checksum>>} # {}} :
          IF o = "iter"
          THEN /\ sy.phase \in 1..3
               /\ Return(ErrIter)
               /\ UNCHANGED <<repos, sylog>>
          ELSE IF ~Lacks(repos[To], Type, checksum)
          THEN /\ o = "ok"
               /\ sy' = Advance(sy)
               /\ UNCHANGED <<repos, sylog, syncerrs, synext>>
          ELSE IF o = "get"
          THEN /\ sy.phase # 4
               /\ sylog' = sylog \cup {[op |-> "get", to |-> To, blob |-> <<Type, checksum>>,
                                         had |-> had]}
               /\ Return(ErrGetBlob)
               /\ UNCHANGED repos
          ELSE IF o = "marshal"
          THEN /\ sy.phase = 4
               /\ \E stop \in BOOLEAN :
                     sy' = IF stop THEN [sy EXCEPT !.phase = 5, !.idx = 0] ELSE Advance(sy)
               /\ UNCHANGED <<repos, sylog, syncerrs, synext>>
          ELSE /\ o \in {"ok", "put"}
               /\ sylog' = sylog \cup
                     {[op |-> g, to |-> To, blob |-> <<Type, checksum>>, had |-> had] :
                        g \in IF sy.phase = 4 THEN {"put"} ELSE {"get", "put"}}
               /\ repos' = IF o = "put" THEN repos
                           ELSE [repos EXCEPT ![To] = PutBlob(@, Type, checksum)]
               /\ sy' = Advance(sy)
               /\ UNCHANGED <<syncerrs, synext>>
    /\ UNCHANGED <<syargs, sypc, srcSyncList, dstSyncList, syret, sybefore, symaps>>

\* synchronize: return dstSnapshot.Commit()
SyncCommit(fault) ==
    /\ sy # NoSync /\ sy.phase = 6
    /\ fault => syfaults < MaxFaults
    /\ syfaults' = IF fault THEN syfaults + 1 ELSE syfaults
    /\ repos' = IF fault THEN repos ELSE [repos EXCEPT ![To] = Commit(@, sy.id)]
    /\ Return(IF fault THEN ErrCommit ELSE NoErr)
    /\ UNCHANGED <<syargs, sypc, srcSyncList, dstSyncList, syret, sylog, sybefore, symaps>>

\* cmd_sync: the end of a loop: the second loop for direction with, or return 0, nil
SyncPassEnd ==
    /\ sypc \in {"pass1", "pass2"} /\ sy = NoSync /\ synext > Len(CurSyncList)
    /\ IF sypc = "pass1" /\ SecondPass(syargs.direction)
       THEN /\ \E order \in Orders(SyncList(symaps.dst, symaps.src,
                                             syargs.syncSnapshotID)) :
                 dstSyncList' = order
            /\ sypc' = "pass2"
            /\ synext' = 1
            /\ UNCHANGED syret
       ELSE /\ syret' = [status |-> 0, err |-> NoErr]
            /\ sypc' = "done"
            /\ UNCHANGED <<dstSyncList, synext>>
    /\ UNCHANGED <<repos, syargs, srcSyncList, sy, syncerrs, sylog, syfaults, sybefore, symaps>>

SYInit ==
    /\ repos \in {[repo |-> RepositoryOf(L), peerRepository |-> RepositoryOf(P)] :
                    L \in SUBSET SnapshotNames, P \in SUBSET SnapshotNames}
    /\ syargs \in [syncSnapshotID : SnapshotPrefixes, direction : Directions]
    /\ sypc = "start"
    /\ srcSyncList = <<>> /\ dstSyncList = <<>> /\ synext = 0
    /\ symaps = [src |-> {}, dst |-> {}]
    /\ sy = NoSync /\ syncerrs = <<>> /\ syret = NoReturn
    /\ sylog = {} /\ syfaults = 0
    /\ sybefore = [n \in {"repo", "peerRepository"} |-> repos[n].snapshots]

SYNext ==
    \/ \E fault \in {"none", "src", "dst"} : CmdSyncStart(fault)
    \/ \E fault \in {NoErr, ErrLoad, ErrClone} : SyncBegin(fault)
    \/ \E fault \in BOOLEAN : SyncOpen(fault)
    \/ \E o \in {"ok", "iter", "get", "marshal", "put"} : SyncBlob(o)
    \/ \E fault \in BOOLEAN : SyncCommit(fault)
    \/ SyncPassEnd

SYIdle ==
    /\ repos = [n \in {"repo", "peerRepository"} |-> RepositoryOf({})]
    /\ syargs = [syncSnapshotID |-> <<>>, direction |-> "to"]
    /\ sypc = "idle"
    /\ srcSyncList = <<>> /\ dstSyncList = <<>> /\ synext = 0
    /\ symaps = [src |-> {}, dst |-> {}]
    /\ sy = NoSync /\ syncerrs = <<>> /\ syret = NoReturn
    /\ sylog = {} /\ syfaults = 0
    /\ sybefore = [n \in {"repo", "peerRepository"} |-> {}]

(***************************************************************************)
(* clone: cmd_clone.  A store is the set of packfiles and the set of state  *)
(* files it holds; GetPackfiles, GetPackfile, PutPackfile, GetStates,       *)
(* GetState and PutState belong to the storage package and are modelled by  *)
(* their contract: each may fail, a successful Put leaves the item in the   *)
(* store.  Each goroutine of cmd_clone is a process with two steps.         *)
(***************************************************************************)
Checksums == {1, 2}

EmptyStore == [packfiles |-> {}, states |-> {}]
NoGoroutines == [c \in {} |-> "done"]

ErrGetPackfiles == "GetPackfiles"
ErrGetStates == "GetStates"

\* sync.WaitGroup: Add(1) once per goroutine started
Add(S) == Cardinality(S)

Wait_NoJoin(n) == TRUE

\* sync.WaitGroup.Wait returns when the counter is zero
Wait(n) == n = 0

\* the result of a goroutine's step: on to the next step, or return (wg.Done)
Step(go, c, failed, next) == [go EXCEPT ![c] = IF failed THEN "done" ELSE next]

\* cmd_clone: GetPackfiles and the start of one goroutine per packfile
CloneGetPackfiles(fault) ==
    /\ clpc = "start"
    /\ fault => clfaults < MaxFaults
    /\ clfaults' = IF fault THEN clfaults + 1 ELSE clfaults
    /\ IF fault
       THEN /\ clret' = [status |-> 1, err |-> ErrGetPackfiles]
            /\ clpc' = "done"
            /\ UNCHANGED <<gopack, wg>>
       ELSE /\ gopack' = [c \in sourceStore.packfiles |-> "get"]
            /\ wg' = Add(sourceStore.packfiles)
            /\ clpc' = "packfiles"
            /\ UNCHANGED clret
    /\ UNCHANGED <<sourceStore, cloneStore, gostate, putStateIssued>>

\* packfile goroutine: sourceStore.GetPackfile
CopyPackfileGet(packfileChecksum, fault) ==
    /\ packfileChecksum \in DOMAIN gopack /\ gopack[packfileChecksum] = "get"
    /\ fault => clfaults < MaxFaults
    /\ clfaults' = IF fault THEN clfaults + 1 ELSE clfaults
    /\ gopack' = Step(gopack, packfileChecksum, fault, "put")
    /\ wg' = IF fault THEN wg - 1 ELSE wg
    /\ UNCHANGED <<sourceStore, cloneStore, clpc, gostate, clret, putStateIssued>>

\* packfile goroutine: cloneStore.PutPackfile, then wg.Done
CopyPackfilePut(packfileChecksum, fault) ==
    /\ packfileChecksum \in DOMAIN gopack /\ gopack[packfileChecksum] = "put"
    /\ fault => clfaults < MaxFaults
    /\ clfaults' = IF fault THEN clfaults + 1 ELSE clfaults
    /\ cloneStore' = IF fault THEN cloneStore
                     ELSE [cloneStore EXCEPT !.packfiles = @ \cup {packfileChecksum}]
    /\ gopack' = Step(gopack, packfileChecksum, TRUE, "done")
    /\ wg' = wg - 1
    /\ UNCHANGED <<sourceStore, clpc, gostate, clret, putStateIssued>>

\* cmd_clone: wg.Wait, GetStates and the start of one goroutine per state
CloneGetStates(fault) ==
    /\ clpc = "packfiles" /\ Wait(wg)
    /\ fault => clfaults < MaxFaults
    /\ clfaults' = IF fault THEN clfaults + 1 ELSE clfaults
    /\ IF fault
       THEN /\ clret' = [status |-> 1, err |-> ErrGetStates]
            /\ clpc' = "done"
            /\ UNCHANGED <<gostate, wg>>
       ELSE /\ gostate' = [c \in sourceStore.states |-> "get"]
            /\ wg' = Add(sourceStore.states)
            /\ clpc' = "states"
            /\ UNCHANGED clret
    /\ UNCHANGED <<sourceStore, cloneStore, gopack, putStateIssued>>

\* state goroutine: sourceStore.GetState
CopyStateGet(indexChecksum, fault) ==
    /\ indexChecksum \in DOMAIN gostate /\ gostate[indexChecksum] = "get"
    /\ fault => clfaults < MaxFaults
    /\ clfaults' = IF fault THEN clfaults + 1 ELSE clfaults
    /\ gostate' = Step(gostate, indexChecksum, fault, "put")
    /\ wg' = IF fault THEN wg - 1 ELSE wg
    /\ UNCHANGED <<sourceStore, cloneStore, clpc, gopack, clret, putStateIssued>>

\* state goroutine: cloneStore.PutState, then wg.Done
CopyStatePut(indexChecksum, fault) ==
    /\ indexChecksum \in DOMAIN gostate /\ gostate[indexChecksum] = "put"
    /\ fault => clfaults < MaxFaults
    /\ clfaults' = IF fault THEN clfaults + 1 ELSE clfaults
    /\ cloneStore' = IF fault THEN cloneStore
                     ELSE [cloneStore EXCEPT !.states = @ \cup {indexChecksum}]
    /\ putStateIssued' = TRUE
    /\ gostate' = Step(gostate, indexChecksum, TRUE, "done")
    /\ wg' = wg - 1
    /\ UNCHANGED <<sourceStore, clpc, gopack, clret>>

\* cmd_clone: wg.Wait and return 0, nil
CloneReturn ==
    /\ clpc = "states" /\ Wait(wg)
    /\ clret' = [status |-> 0, err |-> NoErr]
    /\ clpc' = "done"
    /\ UNCHANGED <<sourceStore, cloneStore, gopack, gostate, wg, clfaults, putStateIssued>>

CLInit ==
    /\ sourceStore \in [packfiles : SUBSET Checksums, states : SUBSET Checksums]
    /\ cloneStore = EmptyStore
    /\ clpc = "start"
    /\ gopack = NoGoroutines /\ gostate = NoGoroutines /\ wg = 0
    /\ clret = NoReturn /\ clfaults = 0 /\ putStateIssued = FALSE

CLNext ==
    \/ \E fault \in BOOLEAN : CloneGetPackfiles(fault)
    \/ \E c \in Checksums, fault \in BOOLEAN : CopyPackfileGet(c, fault)
    \/ \E c \in Checksums, fault \in BOOLEAN : CopyPackfilePut(c, fault)
    \/ \E fault \in BOOLEAN : CloneGetStates(fault)
    \/ \E c \in Checksums, fault \in BOOLEAN : CopyStateGet(c, fault)
    \/ \E c \in Checksums, fault \in BOOLEAN : CopyStatePut(c, fault)
    \/ CloneReturn

CLIdle ==
    /\ sourceStore = EmptyStore /\ cloneStore = EmptyStore
    /\ clpc = "idle"
    /\ gopack = NoGoroutines /\ gostate = NoGoroutines /\ wg = 0
    /\ clret = NoReturn /\ clfaults = 0 /\ putStateIssued = FALSE

(***************************************************************************)
(* restore: cmd_restore.  Strings are sequences of character codes.         *)
(* utils.GetHeaders, utils.GetSnapshots, utils.ParseSnapshotID,             *)
(* Snapshot.Restore and the event printer are outside this source tree and  *)
(* modelled by their contract: GetHeaders lists the snapshot headers in     *)
(* creation order, GetSnapshots resolves the id of each argument,           *)
(* ParseSnapshotID splits an argument at its first ':' and roots the        *)
(* pattern at '/', Restore reports one OK line per node under the pattern   *)
(* and then a summary line.  The log.Fatal exits are left out.              *)
(***************************************************************************)
Slash == <<47>>

DirA == <<47, 97>>              \* /a
DirAB == <<47, 97, 47, 98>>     \* /a/b
DirB == <<47, 98>>              \* /b

\* the header of snapshot n: its id and the directory it was imported from
Header(n) ==
    [IndexID |-> <<48 + n>>,
     Directory |-> IF n = 1 THEN DirA ELSE IF n = 2 THEN DirAB ELSE DirB]

\* the nodes of the filesystem of a snapshot: D, D/a, D/a/b, D/b
Nodes(h) ==
    {h.Directory, h.Directory \o DirA, h.Directory \o DirAB, h.Directory \o DirB}

\* the repositories: up to two headers, in creation order
HeaderLists ==
    {<<>>} \cup {<<Header(n)>> : n \in 1..3}
           \cup {<<Header(p[1]), Header(p[2])>> :
                    p \in {q \in (1..3) \X (1..3) : q[1] # q[2]}}

\* ctx.CWD: /a, /a/b, /ab, /b/a, /c
WorkingDirs == {DirA, DirAB, <<47, 97, 98>>, DirB \o DirA, <<47, 99>>}

\* the -to option: absent, or /o
ToOptions == {<<>>, <<47, 111>>}

\* the snapshot arguments: none; 1; 1:/a/a; 2:/a/b/b; 1:/a/a 3; 3 1:/a/b; 9
ArgLists ==
    {<<>>,
     << <<49>> >>,
     << <<49, 58>> \o DirA \o DirA >>,
     << <<50, 58>> \o DirAB \o DirB >>,
     << <<49, 58>> \o DirA \o DirA, <<51>> >>,
     << <<51>>, <<49, 58>> \o DirAB >>,
     << <<57>> >>}

ErrNoSnapshotForPath == "could not find a snapshot to restore this path from"

\* utils.ParseSnapshotID
ParseSnapshotID(arg) ==
    Only({IF at = {} THEN [prefix |-> arg, pattern |-> Slash]
          ELSE Only({[prefix |-> SubSeq(arg, 1, i - 1),
                      pattern |-> IF HasPrefix(SubSeq(arg, i + 1, Len(arg)), Slash)
                                  THEN SubSeq(arg, i + 1, Len(arg))
                                  ELSE Slash \o SubSeq(arg, i + 1, Len(arg))] :
                     i \in {CHOOSE i \in at : \A j \in at : i <= j}}) :
          at \in {{i \in 1..Len(arg) : <<arg[i]>> = ColonStr}}})

\* utils.GetSnapshots: the header each argument names, 0 when there is none
GetSnapshotsOf(metadatas, args) ==
    [offset \in 1..Len(args) |->
        IF \E i \in 1..Len(metadatas) :
              metadatas[i].IndexID = ParseSnapshotID(args[offset]).prefix
        THEN CHOOSE i \in 1..Len(metadatas) :
                 metadatas[i].IndexID = ParseSnapshotID(args[offset]).prefix
        ELSE 0]

\* Snapshot.Restore selects the nodes at or below the pattern
Under(path, pattern) ==
    pattern = Slash \/ path = pattern \/ HasPrefix(path, pattern \o Slash)

\* Snapshot.Restore(exp, base, pattern, opts) and the lines printed for it
RestoreLines(h, base, pattern) ==
    Only({[i \in 1..(Len(sel) + 1) |->
              IF i <= Len(sel)
              THEN [line |-> "OK", id |-> h.IndexID, path |-> sel[i], base |-> base]
              ELSE [line |-> "summary", id |-> h.IndexID, path |-> pattern, base |-> base]] :
          sel \in {SortKeys({p \in Nodes(h) : Under(p, pattern)})}})

\* exporter.NewExporter(pullPath).Root(), pullPath defaulting to ctx.CWD
ExporterRoot(to, cwd) == IF to = <<>> THEN cwd ELSE to

\* cmd_restore: the test of the loop over the headers
CWDIsWithin(cwd, Directory) == cwd = Directory \/ HasPrefix(cwd, Directory \o Slash)

\* cmd_restore: the loop from the last header to the first; 0 when none matches
FindForCWD(metadatas, cwd) ==
    IF \E i \in 1..Len(metadatas) : CWDIsWithin(cwd, metadatas[i].Directory)
    THEN CHOOSE i \in 1..Len(metadatas) :
             /\ CWDIsWithin(cwd, metadatas[i].Directory)
             /\ \A j \in (i + 1)..Len(metadatas) : ~CWDIsWithin(cwd, metadatas[j].Directory)
    ELSE 0

PatternOf_First(args, offset) == ParseSnapshotID(args[1]).pattern

\* cmd_restore: the pattern of the argument at the offset of the snapshot
PatternOf(args, offset) == ParseSnapshotID(args[offset]).pattern

\* cmd_restore with no argument
RestoreDefault(loadFails, restoreFails) ==
    /\ rspc = "start" /\ rsargs.args = <<>>
    /\ \E i \in {FindForCWD(rsheaders, rsctx.CWD)} :
         IF i = 0
         THEN /\ ~loadFails /\ ~restoreFails
              /\ rsret' = [status |-> 1, err |-> ErrNoSnapshotForPath]
              /\ UNCHANGED <<restored, rsout>>
         ELSE IF loadFails
         THEN /\ ~restoreFails
              /\ rsret' = [status |-> 1, err |-> ErrLoad]
              /\ UNCHANGED <<restored, rsout>>
         ELSE /\ restored' = <<[id |-> rsheaders[i].IndexID, base |-> rsctx.CWD,
                               pattern |-> rsctx.CWD, ok |-> ~restoreFails]>>
              /\ rsout' = IF restoreFails THEN <<>>
                          ELSE RestoreLines(rsheaders[i], rsctx.CWD, rsctx.CWD)
              /\ rsret' = [status |-> 0, err |-> NoErr]
    /\ rspc' = "done"
    /\ UNCHANGED <<rsheaders, rsctx, rsargs>>

\* cmd_restore with snapshot arguments
RestoreSnapshots(failing) ==
    /\ rspc = "start" /\ rsargs.args # <<>>
    /\ failing \subseteq 1..Len(rsargs.args) /\ Cardinality(failing) <= MaxFaults
    /\ \E snapshots \in {GetSnapshotsOf(rsheaders, rsargs.args)} :
         IF \E offset \in 1..Len(snapshots) : snapshots[offset] = 0
         THEN /\ failing = {}
              /\ rsret' = [status |-> 1, err |-> ErrGetSnapshots]
              /\ UNCHANGED <<restored, rsout>>
         ELSE /\ restored' =
                   [offset \in 1..Len(snapshots) |->
                       [id |-> rsheaders[snapshots[offset]].IndexID,
                        base |-> ExporterRoot(rsargs.to, rsctx.CWD),
                        pattern |-> PatternOf(rsargs.args, offset),
                        ok |-> offset \notin failing]]
              /\ rsout' = Concat([offset \in 1..Len(snapshots) |->
                                     IF offset \in failing THEN <<>>
                                     ELSE RestoreLines(rsheaders[snapshots[offset]],
                                                       ExporterRoot(rsargs.to, rsctx.CWD),
                                                       PatternOf(rsargs.args, offset))])
              /\ rsret' = [status |-> 0, err |-> NoErr]
    /\ rspc' = "done"
    /\ UNCHANGED <<rsheaders, rsctx, rsargs>>

RSInit ==
    /\ rsheaders \in HeaderLists
    /\ rsctx \in [CWD : WorkingDirs]
    /\ rsargs \in [to : ToOptions, args : ArgLists]
    /\ rspc = "start"
    /\ restored = <<>> /\ rsout = <<>> /\ rsret = NoReturn

RSNext ==
    \/ \E loadFails, restoreFails \in BOOLEAN : RestoreDefault(loadFails, restoreFails)
    \/ \E failing \in SUBSET (1..2) : RestoreSnapshots(failing)

RSIdle ==
    /\ rsheaders = <<>> /\ rsctx = [CWD |-> Slash] /\ rsargs = [to |-> <<>>, args |-> <<>>]
    /\ rspc = "idle"
    /\ restored = <<>> /\ rsout = <<>> /\ rsret = NoReturn

(***************************************************************************)
(* reporting: HTTPReporter.Emit and tryEmit.                               *)
(***************************************************************************)
MaxRetry == 3
MaxLoads == 2
MaxPathLen == 2
MaxNameLen == 2

Retries == 0..MaxRetry
StatusCodes == {199, 200, 204, 299, 300, 404, 500}
NilResponse == [StatusCode |-> 0]
ErrNewRequest == "invalid url"
ErrDo == "connection refused"
ErrStatus == "request failed with status"

\* What http.Client.Do may answer: an error and no response, or a response.
DoAnswers ==
    {[res |-> NilResponse, err |-> ErrDo]}
        \cup {[res |-> [StatusCode |-> s], err |-> "none"] : s \in StatusCodes}

\* A Go error value: its message and, for fmt.Errorf("request failed with
\* status %s", res.Status), the status it formats; NoError is nil.
Error(msg, status) == [msg |-> msg, status |-> status]
NoError == Error("none", 0)

\* tryEmit: the error it returns for one answer of Do.
tryEmit(r, do) ==
    IF ~r.urlParses THEN Error(ErrNewRequest, 0)
    ELSE IF do.err # "none" THEN Error(do.err, 0)
    ELSE IF 200 <= do.res.StatusCode /\ do.res.StatusCode < 300 THEN NoError
    ELSE Error(ErrStatus, do.res.StatusCode)

LoopContinues_OneMore(i, retry) == i <= retry

\* for _ = range reporter.retry
LoopContinues(i, retry) == i < retry

EmitStart(retry, urlParses, marshalFails) ==
    /\ rppc = "idle"
    /\ reporter' = [retry |-> retry, urlParses |-> urlParses]
    /\ rpi' = 0
    /\ rpanswers' = <<>>
    /\ IF marshalFails
       THEN /\ rplog' = <<[level |-> "error", msg |-> "encode", n |-> 0]>>
            /\ rppc' = "returned"
       ELSE /\ rplog' = <<>>
            /\ rppc' = "loop"

EmitTry(do) ==
    /\ rppc = "loop"
    /\ LoopContinues(rpi, reporter.retry)
    /\ \E err \in {tryEmit(reporter, do)} :
        /\ rpanswers' = Append(rpanswers, err)
        /\ IF err = NoError
           THEN /\ rppc' = "returned"
                /\ UNCHANGED <<rpi, rplog>>
           ELSE /\ rplog' = Append(rplog, [level |-> "warn", msg |-> err.msg, n |-> err.status])
                /\ rpi' = rpi + 1
                /\ rppc' = "loop"
    /\ UNCHANGED reporter

EmitGiveUp ==
    /\ rppc = "loop"
    /\ ~LoopContinues(rpi, reporter.retry)
    /\ rplog' = Append(rplog, [level |-> "error", msg |-> "tries", n |-> reporter.retry])
    /\ rppc' = "returned"
    /\ UNCHANGED <<reporter, rpi, rpanswers>>

RPInit ==
    /\ reporter = [retry |-> 0, urlParses |-> TRUE]
    /\ rppc = "idle" /\ rpi = 0 /\ rpanswers = <<>> /\ rplog = <<>>

RPNext ==
    \/ \E retry \in Retries, urlParses \in BOOLEAN, marshalFails \in BOOLEAN :
        EmitStart(retry, urlParses, marshalFails)
    \/ \E do \in DoAnswers : EmitTry(do)
    \/ EmitGiveUp

RPIdle == RPInit

(***************************************************************************)
(* cmd/plakar/plakar.go: main.                                             *)
(***************************************************************************)
LogOptions ==
    {[given |-> FALSE, value |-> ""]}
        \cup {[given |-> TRUE, value |-> v] : v \in {"full", "progress", "bogus", "FULL"}}

ArgVectors ==
    {<<>>, <<"create">>, <<"keygen">>, <<"ls">>, <<"frobnicate">>,
     <<"on">>, <<"on", "repo">>, <<"on", "repo", "create">>, <<"on", "repo", "ls">>}

StoreCommands ==
    {"cat", "check", "diff", "find", "info", "key", "ls", "pull", "push", "rm",
     "server", "tarball", "ui", "version"}

\* What cmd_create may do: create the repository and return, meet an error
\* and return, or meet an error and end the process itself.
CreateOutcomes == {"created", "failed", "exited"}

Running == 0 - 1

\* outputLog != "" && outputLog != "full" && outputLog != "progress"
LogIsRejected(v) == v # "" /\ v # "full" /\ v # "progress"

\* os.Exit, log.Fatalf: the process ends with this status.
Exit(status) ==
    /\ mnexit' = status
    /\ mnpc' = "exited"

\* if err != nil, tested after the call cmd_create(ctx, args) whose result
\* is not assigned: err is what GetEncryptedKeypair left.
ErrIsSet(err, outcome) == err # "none"

MainStart(log, argv) ==
    /\ mnpc = "idle"
    /\ mnargs' = [log |-> log, argv |-> argv]
    /\ mnpc' = "flags"
    /\ UNCHANGED <<outputLog, command, storeloc, mnerr, mnexit, mnout, mncalls>>

\* flag.StringVar(&outputLog, "log", "", ...) and the test that follows it.
MainFlags ==
    /\ mnpc = "flags"
    /\ outputLog' = ""
    /\ IF LogIsRejected(outputLog')
       THEN mnout' = Append(mnout, "usage") /\ Exit(1)
       ELSE mnout' = mnout /\ mnpc' = "parse" /\ mnexit' = mnexit
    /\ UNCHANGED <<mnargs, command, storeloc, mnerr, mncalls>>

\* flag.Parse() and the selection of the command and of the repository.
MainParse ==
    /\ mnpc = "parse"
    /\ outputLog' = IF mnargs.log.given THEN mnargs.log.value ELSE outputLog
    /\ \E argv \in {mnargs.argv} :
        IF Len(argv) = 0 \/ (argv[1] = "on" /\ Len(argv) < 3)
        THEN /\ mnout' = Append(mnout, "fatal")
             /\ Exit(1)
             /\ UNCHANGED <<command, storeloc>>
        ELSE /\ IF argv[1] = "on"
                THEN command' = argv[3] /\ storeloc' = argv[2]
                ELSE command' = argv[1] /\ storeloc' = "localdir/store"
             /\ mnpc' = "early"
             /\ UNCHANGED <<mnexit, mnout>>
    /\ UNCHANGED <<mnargs, mnerr, mncalls>>

MainKeygen(fails) ==
    /\ mnpc = "early"
    /\ command = "keygen"
    /\ mnerr' = IF fails THEN "keygen" ELSE "none"
    /\ mncalls' = Append(mncalls, [cmd |-> "keygen", outcome |-> IF fails THEN "failed" ELSE "done"])
    /\ Exit(IF mnerr' # "none" THEN 1 ELSE 0)
    /\ UNCHANGED <<mnargs, outputLog, command, storeloc, mnout>>

MainGetEncryptedKeypair(fails) ==
    /\ mnpc = "early"
    /\ command # "keygen"
    /\ mnerr' = IF fails THEN "keypair" ELSE "none"
    /\ IF mnerr' # "none"
       THEN mnout' = Append(mnout, "key") /\ Exit(1)
       ELSE mnout' = mnout /\ mnpc' = "create" /\ mnexit' = mnexit
    /\ UNCHANGED <<mnargs, outputLog, command, storeloc, mncalls>>

MainCreate(outcome) ==
    /\ mnpc = "create"
    /\ command = "create"
    /\ mncalls' = Append(mncalls, [cmd |-> "create", outcome |-> outcome])
    /\ IF outcome = "exited"
       THEN Exit(1)
       ELSE Exit(IF ErrIsSet(mnerr, outcome) THEN 1 ELSE 0)
    /\ UNCHANGED <<mnargs, outputLog, command, storeloc, mnerr, mnout>>

MainCommand(openFails) ==
    /\ mnpc = "create"
    /\ command # "create"
    /\ IF openFails
       THEN /\ mnerr' = "open"
            /\ mnout' = Append(mnout, "store")
            /\ mncalls' = mncalls
            /\ Exit(0)
       ELSE /\ mnerr' = "none"
            /\ IF command \in StoreCommands
               THEN /\ mncalls' = Append(mncalls, [cmd |-> command, outcome |-> "done"])
                    /\ mnout' = mnout
                    /\ Exit(0)
               ELSE /\ mncalls' = mncalls
                    /\ mnout' = Append(mnout, "fatal")
                    /\ Exit(1)
    /\ UNCHANGED <<mnargs, outputLog, command, storeloc>>

MNInit ==
    /\ mnargs = [log |-> [given |-> FALSE, value |-> ""], argv |-> <<>>]
    /\ outputLog = "" /\ command = "" /\ storeloc = "" /\ mnerr = "none"
    /\ mnpc = "idle" /\ mnexit = Running /\ mnout = <<>> /\ mncalls = <<>>

MNNext ==
    \/ \E log \in LogOptions, argv \in ArgVectors : MainStart(log, argv)
    \/ MainFlags
    \/ MainParse
    \/ \E fails \in BOOLEAN : MainKeygen(fails)
    \/ \E fails \in BOOLEAN : MainGetEncryptedKeypair(fails)
    \/ \E outcome \in CreateOutcomes : MainCreate(outcome)
    \/ \E openFails \in BOOLEAN : MainCommand(openFails)

MNIdle == MNInit

(***************************************************************************)
(* snapshot/exporter: the registry of backends, Backends and NewExporter.   *)
(***************************************************************************)
StrS3 == <<115, 51>>
StrFs == <<102, 115>>
StrFtp == <<102, 116, 112>>
StrSftp == <<115, 102, 116, 112>>
SchemeSep == <<58, 47, 47>>
StrX == <<120>>

Goroutines == {1, 2}
Unlocked == 0
BackendNames == {StrFs, StrS3}

Locations ==
    {Slash \o StrX, StrS3 \o SchemeSep \o StrX, StrFs \o SchemeSep,
     StrFtp \o SchemeSep \o StrX, StrSftp \o SchemeSep \o StrX,
     <<104>> \o SchemeSep \o StrX, StrX, <<>>, Slash \o StrS3 \o SchemeSep,
     StrX \o StrS3 \o SchemeSep, StrS3 \o <<58, 47>>}

Configs ==
    {[has |-> FALSE, location |-> <<>>]}
        \cup {[has |-> TRUE, location |-> l] : l \in Locations}

ErrMissingLocation == "missing location"
ErrUnsupported == "unsupported exporter protocol"
ErrNoBackend == "backend does not exist"
ErrFactory == "backend failed"

Contains_Never(s, substr) == FALSE

\* strings.Contains
Contains(s, substr) ==
    \E i \in 1..(Len(s) - Len(substr) + 1) :
        SubSeq(s, i, i + Len(substr) - 1) = substr

\* The backend name NewExporter derives from the location, "" with the
\* error when it returns before the lookup.
BackendNameOf(location) ==
    IF ~HasPrefix(location, Slash)
    THEN IF HasPrefix(location, StrS3 \o SchemeSep) THEN [name |-> StrS3, err |-> "none"]
         ELSE IF HasPrefix(location, StrFs \o SchemeSep) THEN [name |-> StrFs, err |-> "none"]
         ELSE IF HasPrefix(location, StrFtp \o SchemeSep) THEN [name |-> StrFtp, err |-> "none"]
         ELSE IF HasPrefix(location, StrSftp \o SchemeSep) THEN [name |-> StrSftp, err |-> "none"]
         ELSE IF Contains(location, SchemeSep) THEN [name |-> <<>>, err |-> ErrUnsupported]
         ELSE [name |-> StrFs, err |-> "none"]
    ELSE [name |-> StrFs, err |-> "none"]

\* NewExporter: the backend whose exporter it returns (<<>> for nil) and
\* the error; factoryFails is what the factory answers.
NewExporter(config, registry, factoryFails) ==
    IF ~config.has THEN [exporter |-> <<>>, err |-> ErrMissingLocation]
    ELSE \* the value of BackendNameOf is bound once
         Only({IF b.err # "none" THEN [exporter |-> <<>>, err |-> b.err]
               ELSE IF b.name \notin DOMAIN registry
                    THEN [exporter |-> <<>>, err |-> ErrNoBackend]
               ELSE IF factoryFails THEN [exporter |-> <<>>, err |-> ErrFactory]
               ELSE [exporter |-> b.name, err |-> "none"] :
               b \in {BackendNameOf(config.location)}})

\* sort.Slice(ret, func(i, j int) bool { return ret[i] < ret[j] }) over the
\* names collected by ranging over the map.
Backends(registry) == SortKeys(DOMAIN registry)

CanLock_Always(mu) == TRUE

\* muBackends.Lock() returns only when no goroutine holds the mutex.
CanLock(mu) == mu = Unlocked

RegisterCall(g, name) ==
    /\ ~exaborted
    /\ exgo[g].pc = "idle"
    /\ exgo' = [exgo EXCEPT ![g] = [pc |-> "lock", name |-> name]]
    /\ UNCHANGED <<backends, muBackends, exaborted, exstores, exret>>

RegisterLock(g) ==
    /\ ~exaborted
    /\ exgo[g].pc = "lock"
    /\ CanLock(muBackends)
    /\ muBackends' = g
    /\ exgo' = [exgo EXCEPT ![g].pc = "check"]
    /\ UNCHANGED <<backends, exaborted, exstores, exret>>

\* if _, ok := backends[name]; ok { log.Fatalf(...) }
RegisterCheck(g) ==
    /\ ~exaborted
    /\ exgo[g].pc = "check"
    /\ IF exgo[g].name \in DOMAIN backends
       THEN exaborted' = TRUE /\ exgo' = exgo
       ELSE exaborted' = exaborted /\ exgo' = [exgo EXCEPT ![g].pc = "store"]
    /\ UNCHANGED <<backends, muBackends, exstores, exret>>

\* backends[name] = backend; the factory is identified by its registrant.
RegisterStore(g) ==
    /\ ~exaborted
    /\ exgo[g].pc = "store"
    /\ backends' = [n \in DOMAIN backends \cup {exgo[g].name} |->
                        IF n = exgo[g].name THEN g ELSE backends[n]]
    /\ exstores' = Append(exstores, <<exgo[g].name, g>>)
    /\ exgo' = [exgo EXCEPT ![g].pc = "unlock"]
    /\ UNCHANGED <<muBackends, exaborted, exret>>

\* defer muBackends.Unlock()
RegisterUnlock(g) ==
    /\ ~exaborted
    /\ exgo[g].pc = "unlock"
    /\ muBackends' = Unlocked
    /\ exgo' = [exgo EXCEPT ![g] = [pc |-> "idle", name |-> <<>>]]
    /\ UNCHANGED <<backends, exaborted, exstores, exret>>

CallBackends ==
    /\ ~exaborted
    /\ CanLock(muBackends)
    /\ exret' = [op |-> "Backends", list |-> Backends(backends),
                 res |-> [exporter |-> <<>>, err |-> "none"],
                 config |-> [has |-> FALSE, location |-> <<>>],
                 at |-> DOMAIN backends]
    /\ UNCHANGED <<backends, muBackends, exgo, exaborted, exstores>>

CallNewExporter(config, factoryFails) ==
    /\ ~exaborted
    /\ config.has => CanLock(muBackends)
    /\ exret' = [op |-> "NewExporter", list |-> <<>>,
                 res |-> NewExporter(config, backends, factoryFails),
                 config |-> config, at |-> DOMAIN backends]
    /\ UNCHANGED <<backends, muBackends, exgo, exaborted, exstores>>

EXInit ==
    /\ backends = [n \in {} |-> 0]
    /\ muBackends = Unlocked
    /\ exgo = [g \in Goroutines |-> [pc |-> "idle", name |-> <<>>]]
    /\ exaborted = FALSE
    /\ exstores = <<>>
    /\ exret = [op |-> "none", list |-> <<>>, res |-> [exporter |-> <<>>, err |-> "none"],
                config |-> [has |-> FALSE, location |-> <<>>], at |-> {}]

EXNext ==
    \/ \E g \in Goroutines, name \in BackendNames : RegisterCall(g, name)
    \/ \E g \in Goroutines : RegisterLock(g)
    \/ \E g \in Goroutines : RegisterCheck(g)
    \/ \E g \in Goroutines : RegisterStore(g)
    \/ \E g \in Goroutines : RegisterUnlock(g)
    \/ CallBackends
    \/ \E config \in Configs, factoryFails \in BOOLEAN : CallNewExporter(config, factoryFails)

EXIdle == EXInit

(***************************************************************************)
(* btree/iter.go: VisitDFS, and the iterators over a store whose Get may    *)
(* start or stop failing at any time.                                       *)
(***************************************************************************)
ErrCb == "callback failed"

FirstVisit_Always(idx) == TRUE

\* if l.idx == -1
FirstVisit(idx) == idx = 0 - 1

VisitStart ==
    /\ vpc = "idle"
    /\ it.kind = "none"
    /\ vstack' = <<[ptr |-> Root, idx |-> 0 - 1]>>
    /\ vcalls' = <<>>
    /\ vret' = "none"
    /\ vpc' = "loop"
    /\ UNCHANGED btvars

\* One turn of the loop `for len(stack) > 0`.
VisitStep(cbFails) ==
    /\ vpc = "loop"
    /\ Len(vstack) > 0
    /\ \E l \in {vstack[Len(vstack)]} : \E g \in {StoreGet(l.ptr)} :
        IF g.err # NoErr
        THEN /\ vret' = g.err
             /\ vpc' = "done"
             /\ UNCHANGED <<vstack, vcalls>>
        ELSE /\ vcalls' = IF FirstVisit(l.idx) THEN Append(vcalls, <<l.ptr, g.node>>) ELSE vcalls
             /\ IF FirstVisit(l.idx) /\ cbFails
                THEN /\ vret' = ErrCb
                     /\ vpc' = "done"
                     /\ UNCHANGED vstack
                ELSE /\ UNCHANGED <<vret, vpc>>
                     /\ IF l.idx + 1 = Len(g.node.Pointers)
                        THEN vstack' = SubSeq(vstack, 1, Len(vstack) - 1)
                        ELSE vstack' = Append([vstack EXCEPT ![Len(vstack)].idx = l.idx + 1],
                                              [ptr |-> g.node.Pointers[l.idx + 2], idx |-> 0 - 1])
    /\ UNCHANGED btvars

\* The loop ends with the stack empty: return nil.
VisitReturn ==
    /\ vpc = "loop"
    /\ Len(vstack) = 0
    /\ vret' = NoErr
    /\ vpc' = "done"
    /\ UNCHANGED <<btvars, vstack, vcalls>>

VisitForget ==
    /\ vpc = "done"
    /\ vstack' = <<>> /\ vcalls' = <<>> /\ vret' = "none" /\ vpc' = "idle"
    /\ UNCHANGED btvars

\* b.store.Get starts failing on one pointer while an iterator is open
FaultDuringScan(p) ==
    /\ it.kind \in {"fwd", "bwd"}
    /\ bad = Nil
    /\ bad' = p
    /\ UNCHANGED <<store, Root, entries, it, mode, fromKey, yielded, ret, extra>>

\* b.store.Get stops failing while an iterator is open
RepairDuringScan ==
    /\ it.kind \in {"fwd", "bwd"}
    /\ bad # Nil
    /\ bad' = Nil
    /\ UNCHANGED <<store, Root, entries, it, mode, fromKey, yielded, ret, extra>>

VSIdle == vstack = <<>> /\ vcalls = <<>> /\ vret = "none" /\ vpc = "idle"

VSInit == BTInit /\ VSIdle

VSNext ==
    \/ /\ vpc = "idle"
       /\ BTNext
       /\ UNCHANGED vsvars
    \/ /\ vpc # "idle"
       /\ \/ \E p \in DOMAIN store : InjectFault(p)
          \/ Repair
       /\ UNCHANGED vsvars
    \/ /\ \/ \E p \in DOMAIN store : FaultDuringScan(p)
          \/ RepairDuringScan
       /\ UNCHANGED vsvars
    \/ VisitStart
    \/ \E cbFails \in BOOLEAN : VisitStep(cbFails)
    \/ VisitReturn
    \/ VisitForget

(***************************************************************************)
(* cmd/plakar/subcommands/checksum: displayChecksums on a regular file.    *)
(***************************************************************************)
Contents == {<<>>, <<0>>, <<1>>, <<2>>, <<0, 1>>, <<1, 0>>, <<1, 2>>, <<2, 2>>}
Digests == 0..3

\* The digest of repo.Hasher() over a content: a function of every byte and
\* of its position.
RECURSIVE Sum(_)
Sum(content) ==
    IF content = <<>> THEN 1
    ELSE (3 * Sum(SubSeq(content, 1, Len(content) - 1)) + Last(content) + Len(content)) % 4

NoHasher == <<"none">>
NoDigest == 0 - 1

ErrLookupObject == "object not found"
ErrNewReader == "cannot open reader"
ErrCopy == "read failed"

\* The value formatted by fmt.Fprintf(ctx.Stdout, "SHA256 (%s) = %x\n",
\* pathname, checksum): checksum was assigned object.Checksum and the hasher
\* is never read.
Printed(recorded, h, fast) == recorded

ChecksumStart(file, fast) ==
    /\ ckpc = "idle"
    /\ ckfile' = file
    /\ fastcheck' = fast
    /\ ckpc' = "lookup"
    /\ UNCHANGED <<ckchecksum, hasher, ckout, ckret>>

\* object, err := snap.LookupObject(...); checksum := object.Checksum
ChecksumLookup(fails) ==
    /\ ckpc = "lookup"
    /\ IF fails
       THEN ckret' = ErrLookupObject /\ ckpc' = "done" /\ UNCHANGED ckchecksum
       ELSE ckchecksum' = ckfile.recorded /\ ckpc' = "hash" /\ UNCHANGED ckret
    /\ UNCHANGED <<ckfile, fastcheck, hasher, ckout>>

\* if !fastcheck { rd := snap.NewReader(pathname); io.Copy(hasher, rd) }
ChecksumHash(readerFails, copyFails) ==
    /\ ckpc = "hash"
    /\ IF fastcheck
       THEN ckpc' = "print" /\ UNCHANGED <<hasher, ckret>>
       ELSE IF readerFails
       THEN ckret' = ErrNewReader /\ ckpc' = "done" /\ UNCHANGED hasher
       ELSE IF copyFails
       THEN /\ \E n \in 0..Len(ckfile.content) : hasher' = SubSeq(ckfile.content, 1, n)
            /\ ckret' = ErrCopy /\ ckpc' = "done"
       ELSE hasher' = ckfile.content /\ ckpc' = "print" /\ UNCHANGED ckret
    /\ UNCHANGED <<ckfile, fastcheck, ckchecksum, ckout>>

ChecksumPrint ==
    /\ ckpc = "print"
    /\ ckout' = Append(ckout, Printed(ckchecksum, hasher, fastcheck))
    /\ ckret' = "nil"
    /\ ckpc' = "done"
    /\ UNCHANGED <<ckfile, fastcheck, ckchecksum, hasher>>

CKInit ==
    /\ ckfile = [content |-> <<>>, recorded |-> 0]
    /\ fastcheck = FALSE /\ ckchecksum = NoDigest /\ hasher = NoHasher
    /\ ckpc = "idle" /\ ckout = <<>> /\ ckret = "none"

CKNext ==
    \/ \E content \in Contents, recorded \in Digests, fast \in BOOLEAN :
        ChecksumStart([content |-> content, recorded |-> recorded], fast)
    \/ \E fails \in BOOLEAN : ChecksumLookup(fails)
    \/ \E readerFails \in BOOLEAN, copyFails \in BOOLEAN : ChecksumHash(readerFails, copyFails)
    \/ ChecksumPrint

CKIdle == CKInit

(***************************************************************************)
(* repository/state: InsertState on streams that end early, and on two     *)
(* states that hold a delta entry for the same (type, blob).               *)
(***************************************************************************)
\* the number of bytes the reader loses at the end of the stream
StreamCuts == {0, 1, 21, 22, 60, 96, 97, 170}

\* InsertState(files[i].id, rd) where rd delivers all but the last cut bytes
InsertStateFrom(i, cut) ==
    /\ cut <= Len(files[i].rd)
    /\ \E r \in {InsertStateOp(db, Metadata, files[i].id,
                               SubSeq(files[i].rd, 1, Len(files[i].rd) - cut))} :
           /\ db' = r.db
           /\ Metadata' = r.Metadata
           /\ lastOp' = Op("InsertState", <<i, cut>>, [err |-> r.err, pos |-> r.pos])
           /\ inserted' = UpsertAll(inserted,
                                    {e \in files[i].entries :
                                        r.pos > 0 /\ GetDelta(r.db, e.Type, e.Blob) = ToBytes(e)})
           /\ pbfailed' = IF r.err # NoErr THEN pbfailed \cup {i} ELSE pbfailed
    /\ UNCHANGED <<w, peer, files>>

PBIdle == pbfailed = {}

\* the state files A and C of InputStates: both hold an entry for the same
\* (type, blob), at different locations
PBInit ==
    /\ db = EmptyDb
    /\ Metadata = NewMetadata
    /\ w = NoStream
    /\ peer = NoPeer
    /\ lastOp = NoOp
    /\ inserted = {}
    /\ files = <<InputStates[1], InputStates[3]>>
    /\ PBIdle

PBNext == \E i \in 1..Len(files), cut \in StreamCuts : InsertStateFrom(i, cut)

(***************************************************************************)
(* caching/repository.go: PutState, DelState and GetStates next to the     *)
(* delta entries.                                                           *)
(***************************************************************************)
StateIds == {IdA, IdB, IdC}

\* cache.PutState(stateID, data) with the metadata of a fresh state
CachePutState(id) ==
    /\ db' = PutState(db, id, MetadataToBytes(NewMetadata))
    /\ dsput' = dsput \cup {id}
    /\ lastOp' = Op("PutState", <<id>>, NoErr)
    /\ UNCHANGED <<Metadata, w, peer, inserted, files>>

\* LocalState.DelState(stateID)
DoDelState(id) ==
    /\ db' = DelState(db, id)
    /\ dsput' = dsput \ {id}
    /\ lastOp' = Op("DelState", <<id>>, NoErr)
    /\ UNCHANGED <<Metadata, w, peer, inserted, files>>

\* InsertState of the state file A: its delta entries and its state record
DoInsertStateA ==
    /\ InsertState(1)
    /\ dsput' = IF HasState(db', files[1].id) THEN dsput \cup {files[1].id} ELSE dsput

DSIdle == dsput = {}

DSInit == STInit /\ DSIdle

DSNext ==
    \/ \E id \in StateIds : CachePutState(id)
    \/ \E id \in StateIds : DoDelState(id)
    \/ DoInsertStateA
    \/ \E de \in PutInputs : PutDelta(de) /\ UNCHANGED dsput

(***************************************************************************)
(* storage/types.go, package index: checksum interning and the chunk and   *)
(* object to packfile maps, each behind its own mutex.                      *)
(***************************************************************************)
IndexSums == {BlobA, BlobB, PackP}

NoMap == [k \in {} |-> 0]

MapSet(m, k, v) == [x \in (DOMAIN m) \cup {k} |-> IF x = k THEN v ELSE m[x]]

\* NewIndex: Checksums, Chunks and Objects are made, checksumsInverse is left nil
NewIndex ==
    [checksumID |-> 0, Checksums |-> NoMap, checksumsInverse |-> NoMap,
     inverseIsNil |-> TRUE, Chunks |-> NoMap, Objects |-> NoMap]

\* msgpack.Marshal(index): the exported fields
Serialize(index) ==
    [Checksums |-> index.Checksums, Chunks |-> index.Chunks, Objects |-> index.Objects]

\* NewFromBytes: the fields unmarshalled, checksumID at its zero value, the
\* inverse filled by ranging over Checksums (for an id held by several
\* checksums the one ranged over last stays)
NewFromBytes(serialized) ==
    LET ids == {serialized.Checksums[c] : c \in DOMAIN serialized.Checksums}
    IN  {[checksumID |-> 0, Checksums |-> serialized.Checksums,
          checksumsInverse |-> inv, inverseIsNil |-> FALSE,
          Chunks |-> serialized.Chunks, Objects |-> serialized.Objects] :
         inv \in {f \in [ids -> IndexSums] :
                    \A id \in ids : /\ f[id] \in DOMAIN serialized.Checksums
                                    /\ serialized.Checksums[f[id]] = id}}

\* the body of addChecksum, muChecksums held; the write to a nil
\* checksumsInverse panics after Checksums was written
addChecksum(index, checksum) ==
    IF checksum \in DOMAIN index.Checksums
    THEN [index |-> index, id |-> index.Checksums[checksum], panic |-> FALSE]
    ELSE IF index.inverseIsNil
    THEN [index |-> [index EXCEPT !.Checksums = MapSet(@, checksum, index.checksumID)],
          id |-> index.checksumID, panic |-> TRUE]
    ELSE [index |-> [index EXCEPT !.Checksums = MapSet(@, checksum, index.checksumID),
                                  !.checksumsInverse = MapSet(@, index.checksumID, checksum),
                                  !.checksumID = index.checksumID + 1],
          id |-> index.checksumID, panic |-> FALSE]

\* the map a Set or Get call works on
KindMap(index, kind) == IF kind = "Chunks" THEN index.Chunks ELSE index.Objects

KindMutex(kind) == IF kind = "Chunks" THEN "muChunks" ELSE "muObjects"

WithKindMap(index, kind, m) ==
    IF kind = "Chunks" THEN [index EXCEPT !.Chunks = m] ELSE [index EXCEPT !.Objects = m]

\* SetPackfileForChunk / SetPackfileForObject run alone on an index
SetPackfileFor(index, kind, packfileChecksum, itemChecksum) ==
    LET a == addChecksum(index, itemChecksum)
        b == addChecksum(a.index, packfileChecksum)
    IN  IF a.id \in DOMAIN KindMap(a.index, kind) THEN a.index
        ELSE WithKindMap(b.index, kind, MapSet(KindMap(b.index, kind), a.id, b.id))

\* an index as it is loaded from the bytes of an empty one
LoadedEmpty == Only(NewFromBytes(Serialize(NewIndex)))

\* the delta indexes Merge is called with: an empty one, one that knows a
\* checksum, one with a chunk and one with an object in a packfile
DeltaNone == LoadedEmpty
DeltaSum == addChecksum(LoadedEmpty, BlobA).index
DeltaChunk == SetPackfileFor(LoadedEmpty, "Chunks", PackP, BlobA)
DeltaObject == SetPackfileFor(LoadedEmpty, "Objects", PackP, BlobB)
Deltas == {DeltaNone, DeltaSum, DeltaChunk, DeltaObject}

\* the calls Merge makes for a delta: the chunks, then the objects, each with
\* LookupChecksum of the key first and LookupChecksum of the value second
MergeCalls(delta) ==
    LET of(kind) ==
            LET m == KindMap(delta, kind)
            IN  IF DOMAIN m = {} THEN <<>>
                ELSE LET k == Only(DOMAIN m)
                     IN  <<[kind |-> kind,
                            packfileChecksum |-> delta.checksumsInverse[k],
                            itemChecksum |-> delta.checksumsInverse[m[k]]]>>
    IN  of("Chunks") \o of("Objects")

NoFrame ==
    [op |-> "none", kind |-> "none", item |-> ZeroChecksum, pack |-> ZeroChecksum,
     id |-> 0, merge |-> FALSE, delta |-> DeltaNone, todo |-> <<>>]

NoRet == [g |-> 0, op |-> "none", checksum |-> ZeroChecksum, found |-> FALSE]

IXIdle ==
    /\ ix = NewIndex
    /\ ixpc = [g \in Goroutines |-> "Idle"]
    /\ ixfr = [g \in Goroutines |-> NoFrame]
    /\ ixheld = [g \in Goroutines |-> <<>>]
    /\ ixret = NoRet
    /\ ixloads = 0
    /\ ixpanic = "none"

IXInit == IXIdle

Holds(g, mu) == \E i \in 1..Len(ixheld[g]) : ixheld[g][i] = mu

\* sync.Mutex.Lock returns once nobody holds the mutex, the caller included
IsFree(mu) == \A h \in Goroutines : ~Holds(h, mu)

InCall(g) == ixpanic = "none" /\ ixpc[g] # "Idle"

\* a serialized index is loaded again while no call is running
Reload ==
    /\ ixpanic = "none"
    /\ \A g \in Goroutines : ixpc[g] = "Idle"
    /\ ixloads < MaxLoads
    /\ ix' \in NewFromBytes(Serialize(ix))
    /\ ixloads' = ixloads + 1
    /\ UNCHANGED <<ixpc, ixfr, ixheld, ixret, ixpanic>>

CallSetPackfileFor(g, kind, packfileChecksum, itemChecksum) ==
    /\ ixpanic = "none" /\ ixpc[g] = "Idle"
    /\ ixpc' = [ixpc EXCEPT ![g] = "LockKind"]
    /\ ixfr' = [ixfr EXCEPT ![g] = [NoFrame EXCEPT !.op = "Set", !.kind = kind,
                                                  !.item = itemChecksum,
                                                  !.pack = packfileChecksum]]
    /\ UNCHANGED <<ix, ixheld, ixret, ixpanic>>
    /\ UNCHANGED ixloads

CallGetPackfileFor(g, kind, itemChecksum) ==
    /\ ixpanic = "none" /\ ixpc[g] = "Idle"
    /\ ixpc' = [ixpc EXCEPT ![g] = "LockKind"]
    /\ ixfr' = [ixfr EXCEPT ![g] = [NoFrame EXCEPT !.op = "Get", !.kind = kind,
                                                  !.item = itemChecksum]]
    /\ UNCHANGED <<ix, ixheld, ixret, ixpanic>>
    /\ UNCHANGED ixloads

CallMerge(g, deltaIndex) ==
    /\ ixpanic = "none" /\ ixpc[g] = "Idle"
    /\ ixpc' = [ixpc EXCEPT ![g] = "MergeLock"]
    /\ ixfr' = [ixfr EXCEPT ![g] = [NoFrame EXCEPT !.op = "Merge", !.delta = deltaIndex]]
    /\ UNCHANGED <<ix, ixheld, ixret, ixpanic>>
    /\ UNCHANGED ixloads

\* LookupChecksum: lock, read checksumsInverse, unlock; panics on an unknown id
LookupChecksum(g, checksumID) ==
    /\ ixpanic = "none" /\ ixpc[g] = "Idle"
    /\ IsFree("muChecksums")
    /\ IF checksumID \in DOMAIN ix.checksumsInverse
       THEN /\ ixret' = [g |-> g, op |-> "Lookup", found |-> TRUE,
                          checksum |-> ix.checksumsInverse[checksumID]]
            /\ UNCHANGED ixpanic
       ELSE /\ ixpanic' = "checksum not found"
            /\ UNCHANGED ixret
    /\ UNCHANGED <<ix, ixpc, ixfr, ixheld>>
    /\ UNCHANGED ixloads

\* Merge: the range over deltaIndex.Checksums from where it stands up to its
\* next call of addChecksum; the two loops over Chunks and Objects follow it
MergeRange(index, frame) ==
    LET unknown == (DOMAIN frame.delta.Checksums) \ (DOMAIN index.Checksums)
    IN  IF unknown # {}
        THEN {[pc |-> "MergeAdd", fr |-> [frame EXCEPT !.item = c]] : c \in unknown}
        ELSE {[pc |-> "MergeSet", fr |-> [frame EXCEPT !.todo = MergeCalls(frame.delta)]]}

\* Merge: index.muChecksums.Lock() and the start of the range
MergeLock(g) ==
    /\ InCall(g) /\ ixpc[g] = "MergeLock"
    /\ IsFree("muChecksums")
    /\ ixheld' = [ixheld EXCEPT ![g] = Append(@, "muChecksums")]
    /\ \E n \in MergeRange(ix, ixfr[g]) :
           /\ ixpc' = [ixpc EXCEPT ![g] = n.pc]
           /\ ixfr' = [ixfr EXCEPT ![g] = n.fr]
    /\ UNCHANGED <<ix, ixret, ixpanic>>
    /\ UNCHANGED ixloads

\* Merge: the next SetPackfileFor... call of its two loops, or its return
\* with the deferred Unlock
MergeSet(g) ==
    /\ InCall(g) /\ ixpc[g] = "MergeSet"
    /\ IF ixfr[g].todo = <<>>
       THEN /\ ixpc' = [ixpc EXCEPT ![g] = "Idle"]
            /\ ixheld' = [ixheld EXCEPT ![g] = <<>>]
            /\ ixret' = [NoRet EXCEPT !.g = g, !.op = "Merge"]
            /\ ixfr' = [ixfr EXCEPT ![g] = NoFrame]
       ELSE /\ ixpc' = [ixpc EXCEPT ![g] = "LockKind"]
            /\ ixfr' = [ixfr EXCEPT ![g].merge = TRUE,
                                    ![g].kind = Head(ixfr[g].todo).kind,
                                    ![g].item = Head(ixfr[g].todo).itemChecksum,
                                    ![g].pack = Head(ixfr[g].todo).packfileChecksum,
                                    ![g].todo = Tail(ixfr[g].todo)]
            /\ UNCHANGED <<ixheld, ixret>>
    /\ UNCHANGED <<ix, ixpanic>>
    /\ UNCHANGED ixloads

\* SetPackfileFor... and GetPackfileFor...: muChunks.Lock() / muObjects.Lock()
LockKind(g) ==
    /\ InCall(g) /\ ixpc[g] = "LockKind"
    /\ IsFree(KindMutex(ixfr[g].kind))
    /\ ixheld' = [ixheld EXCEPT ![g] = Append(@, KindMutex(ixfr[g].kind))]
    /\ ixpc' = [ixpc EXCEPT ![g] = "AddItem"]
    /\ UNCHANGED <<ix, ixfr, ixret, ixpanic>>
    /\ UNCHANGED ixloads

\* the mutexes a goroutine is left with when the call it runs returns
AfterReturn(g) ==
    IF ixfr[g].merge THEN <<"muChecksums">> ELSE <<>>

\* where a goroutine goes on when SetPackfileFor... returns
AfterSet(g) == IF ixfr[g].merge THEN "MergeSet" ELSE "Idle"

\* addChecksum as called by Merge, SetPackfileFor... and GetPackfileFor...:
\* muChecksums.Lock(), the body, the deferred Unlock, and what the caller
\* does with the id up to its next lock or its return
AddChecksum(g) ==
    /\ InCall(g) /\ ixpc[g] \in {"MergeAdd", "AddItem", "AddPack"}
    /\ IsFree("muChecksums")
    /\ \E r \in {addChecksum(ix, IF ixpc[g] = "AddPack" THEN ixfr[g].pack ELSE ixfr[g].item)} :
        IF r.panic
        THEN /\ ix' = r.index
             /\ ixpanic' = "assignment to entry in nil map"
             /\ ixheld' = [ixheld EXCEPT ![g] = <<>>]
             /\ UNCHANGED <<ixpc, ixfr, ixret>>
        ELSE
        /\ UNCHANGED ixpanic
        /\ CASE ixpc[g] = "MergeAdd" ->
                  /\ ix' = r.index
                  /\ \E n \in MergeRange(r.index, ixfr[g]) :
                         /\ ixpc' = [ixpc EXCEPT ![g] = n.pc]
                         /\ ixfr' = [ixfr EXCEPT ![g] = n.fr]
                  /\ UNCHANGED <<ixheld, ixret>>
             [] ixpc[g] = "AddItem" /\ ixfr[g].op = "Get"
                                    /\ r.id \notin DOMAIN KindMap(r.index, ixfr[g].kind) ->
                  /\ ix' = r.index
                  /\ ixpc' = [ixpc EXCEPT ![g] = "Idle"]
                  /\ ixheld' = [ixheld EXCEPT ![g] = <<>>]
                  /\ ixret' = [NoRet EXCEPT !.g = g, !.op = "Get"]
                  /\ ixfr' = [ixfr EXCEPT ![g] = NoFrame]
             [] ixpc[g] = "AddItem" /\ ixfr[g].op = "Get"
                                    /\ r.id \in DOMAIN KindMap(r.index, ixfr[g].kind) ->
                  /\ ix' = r.index
                  /\ ixpc' = [ixpc EXCEPT ![g] = "GetRead"]
                  /\ ixfr' = [ixfr EXCEPT ![g].id = r.id]
                  /\ UNCHANGED <<ixheld, ixret>>
             [] ixpc[g] = "AddItem" /\ ixfr[g].op # "Get"
                                    /\ r.id \in DOMAIN KindMap(r.index, ixfr[g].kind) ->
                  /\ ix' = r.index
                  /\ ixpc' = [ixpc EXCEPT ![g] = AfterSet(g)]
                  /\ ixheld' = [ixheld EXCEPT ![g] = AfterReturn(g)]
                  /\ ixret' = [NoRet EXCEPT !.g = g, !.op = "Set"]
                  /\ ixfr' = [ixfr EXCEPT ![g] = IF ixfr[g].merge THEN @ ELSE NoFrame]
             [] ixpc[g] = "AddItem" /\ ixfr[g].op # "Get"
                                    /\ r.id \notin DOMAIN KindMap(r.index, ixfr[g].kind) ->
                  /\ ix' = r.index
                  /\ ixpc' = [ixpc EXCEPT ![g] = "AddPack"]
                  /\ ixfr' = [ixfr EXCEPT ![g].id = r.id]
                  /\ UNCHANGED <<ixheld, ixret>>
             [] ixpc[g] = "AddPack" ->
                  /\ ix' = WithKindMap(r.index, ixfr[g].kind,
                                       MapSet(KindMap(r.index, ixfr[g].kind), ixfr[g].id, r.id))
                  /\ ixpc' = [ixpc EXCEPT ![g] = AfterSet(g)]
                  /\ ixheld' = [ixheld EXCEPT ![g] = AfterReturn(g)]
                  /\ ixret' = [NoRet EXCEPT !.g = g, !.op = "Set"]
                  /\ ixfr' = [ixfr EXCEPT ![g] = IF ixfr[g].merge THEN @ ELSE NoFrame]
    /\ UNCHANGED ixloads

\* GetPackfileFor...: muChecksums.Lock(), the read of checksumsInverse,
\* Unlock, and the return
GetRead(g) ==
    /\ InCall(g) /\ ixpc[g] = "GetRead"
    /\ IsFree("muChecksums")
    /\ \E packfileID \in {KindMap(ix, ixfr[g].kind)[ixfr[g].id]} :
        IF packfileID \in DOMAIN ix.checksumsInverse
        THEN /\ ixret' = [g |-> g, op |-> "Get", found |-> TRUE,
                           checksum |-> ix.checksumsInverse[packfileID]]
             /\ ixpc' = [ixpc EXCEPT ![g] = "Idle"]
             /\ ixheld' = [ixheld EXCEPT ![g] = <<>>]
             /\ ixfr' = [ixfr EXCEPT ![g] = NoFrame]
             /\ UNCHANGED ixpanic
        ELSE /\ ixpanic' = "packfile checksum not found"
             /\ ixheld' = [ixheld EXCEPT ![g] = <<>>]
             /\ UNCHANGED <<ixpc, ixfr, ixret>>
    /\ UNCHANGED ix
    /\ UNCHANGED ixloads

\* the steps of a goroutine inside a call
IndexStep(g) ==
    \/ MergeLock(g)
    \/ MergeSet(g)
    \/ LockKind(g)
    \/ AddChecksum(g)
    \/ GetRead(g)

\* goroutine 1 merges deltas and looks ids up, goroutine 2 records and asks
\* where chunks and objects are
Merger == 1
Worker == 2

IXNext ==
    \/ Reload
    \/ \E c \in {<<"Chunks", BlobA>>, <<"Objects", BlobB>>} :
           CallSetPackfileFor(Worker, c[1], PackP, c[2])
    \/ \E kind \in {"Chunks", "Objects"}, c \in {BlobA, BlobB} :
           CallGetPackfileFor(Worker, kind, c)
    \/ \E deltaIndex \in Deltas : CallMerge(Merger, deltaIndex)
    \/ \E checksumID \in 0..1 : LookupChecksum(Merger, checksumID)
    \/ \E g \in Goroutines : IndexStep(g)

(***************************************************************************)
(* cmd_rm: the validation loop, then the purge loop.                        *)
(***************************************************************************)
StrAA == <<97, 97>>
StrAB == <<97, 98>>
StrBC == <<98, 99>>
StrA == <<97>>
StrC == <<99>>

\* the stores rm runs on and the arguments it is given: full ids, a prefix
\* of two ids, a prefix of none, an id with a path
RmStores == {{StrAA, StrAB, StrBC}, {StrAA, StrBC}}
RmArgs == {StrAA, StrAB, StrBC, StrA, StrC, StrAA \o ColonStr \o Slash \o StrX}
RmArgVectors == {<<>>} \cup {<<a>> : a \in RmArgs} \cup {<<a, b>> : a, b \in RmArgs}

FatalNoArgs == "need at least one snapshot ID to rm"
FatalNoSnapshot == "no snapshot has prefix"
FatalAmbiguous == "snapshot ID is ambigous"
FatalLoad == "could not open snapshot"

\* getSnapshotsList: the ids of the store
getSnapshotsList(ids) == SortKeys(ids)

\* findSnapshotByPrefix: the ids of the list that start with the prefix
findSnapshotByPrefix(snapshots, prefix) ==
    SelectSeq(snapshots, LAMBDA id : HasPrefix(id, prefix))

\* variant of IsAmbiguous that lets every result through
IsAmbiguous_Never(res) == FALSE

\* the test `len(res) > 1` of the validation loop
IsAmbiguous(res) == Len(res) > 1

RMIdle ==
    /\ rmstore = {}
    /\ rmargs = <<>>
    /\ rmlist = <<>>
    /\ rmpc = "idle"
    /\ rmi = 0
    /\ rmpurged = <<>>
    /\ rmret = [status |-> 0, fatal |-> "none"]

RMInit == RMIdle

\* log.Fatalf: the message is logged and the process exits with status 1
Fatalf(msg) ==
    /\ rmpc' = "fatal"
    /\ rmret' = [status |-> 1, fatal |-> msg]

\* cmd_rm up to the first loop: the argument count, getSnapshotsList
RmStart(ids, args) ==
    /\ rmpc = "idle"
    /\ rmstore' = ids
    /\ rmargs' = args
    /\ rmpurged' = <<>>
    /\ rmi' = 0
    /\ IF Len(args) = 0
       THEN /\ Fatalf(FatalNoArgs)
            /\ rmlist' = <<>>
       ELSE /\ rmlist' = getSnapshotsList(ids)
            /\ rmpc' = "validate"
            /\ rmret' = [status |-> 0, fatal |-> "none"]

\* one turn of the first loop
RmValidate ==
    /\ rmpc = "validate"
    /\ IF rmi < Len(rmargs)
       THEN \E res \in {findSnapshotByPrefix(rmlist, ParseSnapshotID(rmargs[rmi + 1]).prefix)} :
               IF Len(res) = 0
               THEN Fatalf(FatalNoSnapshot) /\ UNCHANGED rmi
               ELSE IF IsAmbiguous(res)
               THEN Fatalf(FatalAmbiguous) /\ UNCHANGED rmi
               ELSE rmi' = rmi + 1 /\ UNCHANGED <<rmpc, rmret>>
       ELSE /\ rmpc' = "purge"
            /\ rmi' = 0
            /\ UNCHANGED rmret
    /\ UNCHANGED <<rmstore, rmargs, rmlist, rmpurged>>

\* one turn of the second loop (snapshot.Load fails for an id the store no
\* longer holds, or when reading it fails), or the return after it
RmPurge(loadFails) ==
    /\ rmpc = "purge"
    /\ IF rmi < Len(rmargs)
       THEN \E res \in {findSnapshotByPrefix(rmlist, ParseSnapshotID(rmargs[rmi + 1]).prefix)} :
               IF loadFails \/ res[1] \notin rmstore
               THEN Fatalf(FatalLoad) /\ UNCHANGED <<rmi, rmstore, rmpurged>>
               ELSE /\ rmstore' = rmstore \ {res[1]}
                    /\ rmpurged' = Append(rmpurged, res[1])
                    /\ rmi' = rmi + 1
                    /\ UNCHANGED <<rmpc, rmret>>
       ELSE /\ loadFails = FALSE
            /\ rmpc' = "done"
            /\ rmret' = [status |-> 0, fatal |-> "none"]
            /\ UNCHANGED <<rmi, rmstore, rmpurged>>
    /\ UNCHANGED <<rmargs, rmlist>>

\* the next run of rm
RmForget ==
    /\ rmpc \in {"done", "fatal"}
    /\ rmstore' = {} /\ rmargs' = <<>> /\ rmlist' = <<>> /\ rmpc' = "idle"
    /\ rmi' = 0 /\ rmpurged' = <<>> /\ rmret' = [status |-> 0, fatal |-> "none"]

RMNext ==
    \/ \E ids \in RmStores, args \in RmArgVectors : RmStart(ids, args)
    \/ RmValidate
    \/ \E loadFails \in BOOLEAN : RmPurge(loadFails)
    \/ RmForget

(***************************************************************************)
(* cmd_stats / stats_plakar: reference counts and sizes of chunks and       *)
(* objects over all snapshots.                                              *)
(***************************************************************************)
\* the checksums of the store: AA is both a chunk and the object made of
\* that one chunk, AB is a chunk, BC an object
StatChunks == {StrAA, StrAB}
StatObjects == {StrAA, StrBC}

\* store.GetChunkSize / store.GetObjectSize
ChunkSize(checksum) == IF checksum = StrAA THEN 3 ELSE 5
ObjectSize(checksum) == IF checksum = StrAA THEN 3 ELSE 8

StatSnapshots == [Chunks : SUBSET StatChunks, Objects : SUBSET StatObjects]

\* the stores: up to two snapshots; at most one snapshot.Load, one
\* GetChunkSize or GetObjectSize and one reference count that is off
StatStores ==
    {[snapshots |-> s, loadFails |-> l, sizeFails |-> z, refsOff |-> r, listFails |-> FALSE] :
        s \in {<<>>} \cup {<<a>> : a \in StatSnapshots}
                     \cup {<<a, b>> : a, b \in StatSnapshots},
        l \in {{}, {1}}, z \in {{}, {StrAB}, {StrBC}}, r \in {{}, {StrAA}}}
    \cup {[snapshots |-> <<>>, loadFails |-> {}, sizeFails |-> {}, refsOff |-> {},
           listFails |-> TRUE]}

\* the first loop: chunks[checksum] and objects[checksum], uint16 counters,
\* over the snapshots that load
RECURSIVE CountRefs(_, _, _, _)
CountRefs(st, kind, i, counts) ==
    IF i > Len(st.snapshots) THEN counts
    ELSE IF i \in st.loadFails THEN CountRefs(st, kind, i + 1, counts)
    ELSE LET seen == IF kind = "Chunks" THEN st.snapshots[i].Chunks
                     ELSE st.snapshots[i].Objects
             next == [c \in (DOMAIN counts) \cup seen |->
                         IF c \in seen
                         THEN ((IF c \in DOMAIN counts THEN counts[c] ELSE 0) + 1) % 65536
                         ELSE counts[c]]
         IN  CountRefs(st, kind, i + 1, next)

\* a read of a Go map: the zero value for a key it does not hold
MapGet(m, k) == IF k \in DOMAIN m THEN m[k] ELSE 0

\* the loops `for checksum, count := range ...`: the sum of the sizes and the
\* sum of size * uint64(times[checksum]) over the keys whose size is known
\* (uint64 sums, which the sizes of this store keep far from wrapping)
\* store.GetChunkSize or store.GetObjectSize, by the loop that asks
SizeOf(kind, checksum) ==
    IF kind = "Chunks" THEN ChunkSize(checksum) ELSE ObjectSize(checksum)

RECURSIVE SumSizes(_, _, _, _)
SumSizes(keys, kind, times, fails) ==
    IF keys = {} THEN [stored |-> 0, real |-> 0]
    ELSE LET k == CHOOSE x \in keys : TRUE
             rest == SumSizes(keys \ {k}, kind, times, fails)
         IN  IF k \in fails THEN rest
             ELSE [stored |-> rest.stored + SizeOf(kind, k),
                   real |-> rest.real + SizeOf(kind, k) * MapGet(times, k)]

\* the map the object loop multiplies by: chunks[objectChecksum]
ObjectTimes(chunks, objects) == chunks

\* stats_plakar
stats_plakar(st) ==
    IF st.listFails
    THEN [status |-> 1, snapshots |-> 0, chunks |-> 0, objects |-> 0, errors |-> 0,
          chunksSize |-> 0, dedupedChunksSize |-> 0,
          objectsSize |-> 0, dedupedObjectsSize |-> 0]
    ELSE LET chunks == CountRefs(st, "Chunks", 1, NoMap)
             objects == CountRefs(st, "Objects", 1, NoMap)
             orphans == Cardinality(StatChunks \ DOMAIN chunks)
                        + Cardinality(StatObjects \ DOMAIN objects)
             cs == SumSizes(DOMAIN chunks, "Chunks", chunks, st.sizeFails)
             os == SumSizes(DOMAIN objects, "Objects", ObjectTimes(chunks, objects),
                            st.sizeFails)
             errors == Cardinality(st.loadFails \cap (1..Len(st.snapshots))) + orphans
                       + Cardinality((DOMAIN chunks) \cap st.refsOff)
                       + Cardinality((DOMAIN objects) \cap st.refsOff)
                       + Cardinality((DOMAIN chunks) \cap st.sizeFails)
                       + Cardinality((DOMAIN objects) \cap st.sizeFails)
         IN  [status |-> 0, snapshots |-> Len(st.snapshots),
              chunks |-> Cardinality(DOMAIN chunks), objects |-> Cardinality(DOMAIN objects),
              errors |-> errors,
              chunksSize |-> cs.stored, dedupedChunksSize |-> cs.real,
              objectsSize |-> os.stored, dedupedObjectsSize |-> os.real]

NoStore ==
    [snapshots |-> <<>>, loadFails |-> {}, sizeFails |-> {}, refsOff |-> {},
     listFails |-> FALSE]

SSIdle ==
    /\ ssin = NoStore
    /\ ssout = stats_plakar(NoStore)
    /\ sspc = "idle"

SSInit == SSIdle

\* cmd_stats without arguments
CmdStats(st) ==
    /\ sspc = "idle"
    /\ ssin' = st
    /\ ssout' = stats_plakar(st)
    /\ sspc' = "done"

\* cmd_stats with arguments returns 1 and computes nothing
CmdStatsArgs ==
    /\ sspc = "idle"
    /\ sspc' = "refused"
    /\ UNCHANGED <<ssin, ssout>>

StatsForget ==
    /\ sspc # "idle"
    /\ ssin' = NoStore /\ ssout' = stats_plakar(NoStore) /\ sspc' = "idle"

SSNext ==
    \/ \E st \in StatStores : CmdStats(st)
    \/ CmdStatsArgs
    \/ StatsForget

(***************************************************************************)
(* Xattr.ToPath: the key of an extended attribute.                          *)
(***************************************************************************)
AttributeTypes == {"AttributeExtended", "AttributeADS", "other"}

Backslash == 92

\* the switch on x.Type
SepOf(type) ==
    IF type = "AttributeExtended" THEN 58
    ELSE IF type = "AttributeADS" THEN 64
    ELSE 35

\* variant of NeedsEscape that escapes the backslash alone
NeedsEscape_BackslashOnly(r, sep) == r = Backslash

\* the test `r == sep || r == '\\'` of the loop over x.Name
NeedsEscape(r, sep) == r = sep \/ r = Backslash

\* the loop over the runes of x.Name
RECURSIVE EscapeName(_, _)
EscapeName(name, sep) ==
    IF name = <<>> THEN <<>>
    ELSE (IF NeedsEscape(Head(name), sep) THEN <<Backslash, Head(name)>> ELSE <<Head(name)>>)
         \o EscapeName(Tail(name), sep)

ToPath(x) == x.Path \o <<SepOf(x.Type)>> \o EscapeName(x.Name, SepOf(x.Type))

\* the strings of at most n runes among a letter, the backslash and the
\* separator of the type
XattrStrings(type, n) ==
    UNION {[1..k -> {97, Backslash, SepOf(type)}] : k \in 0..n}

XAIdle ==
    /\ xattr = [Type |-> "other", Path |-> <<>>, Name |-> <<>>]
    /\ xkey = <<35>>
    /\ xapc = "idle"

XAInit == XAIdle

CallToPath(type, path, name) ==
    /\ xapc = "idle"
    /\ xapc' = "done"
    /\ xattr' = [Type |-> type, Path |-> path, Name |-> name]
    /\ xkey' = ToPath([Type |-> type, Path |-> path, Name |-> name])

XANext ==
    \E type \in AttributeTypes :
        \E path \in XattrStrings(type, MaxPathLen), name \in XattrStrings(type, MaxNameLen) :
            CallToPath(type, path, name)

(***************************************************************************)
(* Specifications: one per component, the other components idle.            *)
(***************************************************************************)
BTIdle ==
    /\ store = [p \in {1} |-> NilNode] /\ Root = 1 /\ entries = {} /\ bad = Nil
    /\ it = NoIter /\ mode = "none" /\ fromKey = 0 /\ yielded = <<>>
    /\ ret = "none" /\ extra = 0

STIdle ==
    /\ db = EmptyDb /\ Metadata = NewMetadata /\ w = NoStream /\ peer = NoPeer
    /\ lastOp = NoOp /\ inserted = {} /\ files = <<>>

CDIdle ==
    /\ cde = ZeroDeltaEntry /\ cbuf = <<>>
    /\ cdec = [de |-> ZeroDeltaEntry, err |-> "none"] /\ cpc = "idle"

InitBTree == BTInit /\ STIdle /\ CDIdle /\ SYIdle /\ CLIdle /\ RSIdle /\ RPIdle /\ MNIdle /\ EXIdle /\ VSIdle /\ CKIdle /\ PBIdle /\ DSIdle /\ IXIdle /\ RMIdle /\ SSIdle /\ XAIdle
NextBTree == BTNext /\ UNCHANGED <<stvars, cdvars, syvars, clvars, rsvars, rpvars, mnvars, exvars, vsvars, ckvars, pbvars, dsvars, ixvars, rmvars, ssvars, xavars>>
SpecBTree == InitBTree /\ [][NextBTree]_vars

InitState == STInit /\ BTIdle /\ CDIdle /\ SYIdle /\ CLIdle /\ RSIdle /\ RPIdle /\ MNIdle /\ EXIdle /\ VSIdle /\ CKIdle /\ PBIdle /\ DSIdle /\ IXIdle /\ RMIdle /\ SSIdle /\ XAIdle
NextState == STNext /\ UNCHANGED <<btvars, cdvars, syvars, clvars, rsvars, rpvars, mnvars, exvars, vsvars, ckvars, pbvars, dsvars, ixvars, rmvars, ssvars, xavars>>
SpecState == InitState /\ [][NextState]_vars

InitCodec == CDInit /\ BTIdle /\ STIdle /\ SYIdle /\ CLIdle /\ RSIdle /\ RPIdle /\ MNIdle /\ EXIdle /\ VSIdle /\ CKIdle /\ PBIdle /\ DSIdle /\ IXIdle /\ RMIdle /\ SSIdle /\ XAIdle
NextCodec == CDNext /\ UNCHANGED <<btvars, stvars, syvars, clvars, rsvars, rpvars, mnvars, exvars, vsvars, ckvars, pbvars, dsvars, ixvars, rmvars, ssvars, xavars>>
SpecCodec == InitCodec /\ [][NextCodec]_vars

InitSync == SYInit /\ BTIdle /\ STIdle /\ CDIdle /\ CLIdle /\ RSIdle /\ RPIdle /\ MNIdle /\ EXIdle /\ VSIdle /\ CKIdle /\ PBIdle /\ DSIdle /\ IXIdle /\ RMIdle /\ SSIdle /\ XAIdle
NextSync == SYNext /\ UNCHANGED <<btvars, stvars, cdvars, clvars, rsvars, rpvars, mnvars, exvars, vsvars, ckvars, pbvars, dsvars, ixvars, rmvars, ssvars, xavars>>
SpecSync == InitSync /\ [][NextSync]_vars

InitClone == CLInit /\ BTIdle /\ STIdle /\ CDIdle /\ SYIdle /\ RSIdle /\ RPIdle /\ MNIdle /\ EXIdle /\ VSIdle /\ CKIdle /\ PBIdle /\ DSIdle /\ IXIdle /\ RMIdle /\ SSIdle /\ XAIdle
NextClone == CLNext /\ UNCHANGED <<btvars, stvars, cdvars, syvars, rsvars, rpvars, mnvars, exvars, vsvars, ckvars, pbvars, dsvars, ixvars, rmvars, ssvars, xavars>>
SpecClone == InitClone /\ [][NextClone]_vars

InitRestore == RSInit /\ BTIdle /\ STIdle /\ CDIdle /\ SYIdle /\ CLIdle /\ RPIdle /\ MNIdle /\ EXIdle /\ VSIdle /\ CKIdle /\ PBIdle /\ DSIdle /\ IXIdle /\ RMIdle /\ SSIdle /\ XAIdle
NextRestore == RSNext /\ UNCHANGED <<btvars, stvars, cdvars, syvars, clvars, rpvars, mnvars, exvars, vsvars, ckvars, pbvars, dsvars, ixvars, rmvars, ssvars, xavars>>
SpecRestore == InitRestore /\ [][NextRestore]_vars

InitReporter == RPInit /\ BTIdle /\ STIdle /\ CDIdle /\ SYIdle /\ CLIdle /\ RSIdle /\ MNIdle /\ EXIdle /\ VSIdle /\ CKIdle /\ PBIdle /\ DSIdle /\ IXIdle /\ RMIdle /\ SSIdle /\ XAIdle
NextReporter == RPNext /\ UNCHANGED <<btvars, stvars, cdvars, syvars, clvars, rsvars, mnvars, exvars, vsvars, ckvars, pbvars, dsvars, ixvars, rmvars, ssvars, xavars>>
SpecReporter == InitReporter /\ [][NextReporter]_vars

InitMain == MNInit /\ BTIdle /\ STIdle /\ CDIdle /\ SYIdle /\ CLIdle /\ RSIdle /\ RPIdle /\ EXIdle /\ VSIdle /\ CKIdle /\ PBIdle /\ DSIdle /\ IXIdle /\ RMIdle /\ SSIdle /\ XAIdle
NextMain == MNNext /\ UNCHANGED <<btvars, stvars, cdvars, syvars, clvars, rsvars, rpvars, exvars, vsvars, ckvars, pbvars, dsvars, ixvars, rmvars, ssvars, xavars>>
SpecMain == InitMain /\ [][NextMain]_vars

InitExporter == EXInit /\ BTIdle /\ STIdle /\ CDIdle /\ SYIdle /\ CLIdle /\ RSIdle /\ RPIdle /\ MNIdle /\ VSIdle /\ CKIdle /\ PBIdle /\ DSIdle /\ IXIdle /\ RMIdle /\ SSIdle /\ XAIdle
NextExporter == EXNext /\ UNCHANGED <<btvars, stvars, cdvars, syvars, clvars, rsvars, rpvars, mnvars, vsvars, ckvars, pbvars, dsvars, ixvars, rmvars, ssvars, xavars>>
SpecExporter == InitExporter /\ [][NextExporter]_vars

InitVisit == VSInit /\ STIdle /\ CDIdle /\ SYIdle /\ CLIdle /\ RSIdle /\ RPIdle /\ MNIdle /\ EXIdle /\ CKIdle /\ PBIdle /\ DSIdle /\ IXIdle /\ RMIdle /\ SSIdle /\ XAIdle
NextVisit == VSNext /\ UNCHANGED <<stvars, cdvars, syvars, clvars, rsvars, rpvars, mnvars, exvars, ckvars, pbvars, dsvars, ixvars, rmvars, ssvars, xavars>>
SpecVisit == InitVisit /\ [][NextVisit]_vars

InitChecksum == CKInit /\ BTIdle /\ STIdle /\ CDIdle /\ SYIdle /\ CLIdle /\ RSIdle /\ RPIdle /\ MNIdle /\ EXIdle /\ VSIdle /\ PBIdle /\ DSIdle /\ IXIdle /\ RMIdle /\ SSIdle /\ XAIdle
NextChecksum == CKNext /\ UNCHANGED <<btvars, stvars, cdvars, syvars, clvars, rsvars, rpvars, mnvars, exvars, vsvars, pbvars, dsvars, ixvars, rmvars, ssvars, xavars>>
SpecChecksum == InitChecksum /\ [][NextChecksum]_vars

InitPublish == PBInit /\ BTIdle /\ CDIdle /\ SYIdle /\ CLIdle /\ RSIdle /\ RPIdle /\ MNIdle /\ EXIdle /\ VSIdle /\ CKIdle /\ DSIdle /\ IXIdle /\ RMIdle /\ SSIdle /\ XAIdle
NextPublish == PBNext /\ UNCHANGED <<btvars, cdvars, syvars, clvars, rsvars, rpvars, mnvars, exvars, vsvars, ckvars, dsvars, ixvars, rmvars, ssvars, xavars>>
SpecPublish == InitPublish /\ [][NextPublish]_vars

InitRecords == DSInit /\ BTIdle /\ CDIdle /\ SYIdle /\ CLIdle /\ RSIdle /\ RPIdle /\ MNIdle /\ EXIdle /\ VSIdle /\ CKIdle /\ PBIdle /\ IXIdle /\ RMIdle /\ SSIdle /\ XAIdle
NextRecords == DSNext /\ UNCHANGED <<btvars, cdvars, syvars, clvars, rsvars, rpvars, mnvars, exvars, vsvars, ckvars, pbvars, ixvars, rmvars, ssvars, xavars>>
SpecRecords == InitRecords /\ [][NextRecords]_vars

InitIndex == IXInit /\ BTIdle /\ STIdle /\ CDIdle /\ SYIdle /\ CLIdle /\ RSIdle /\ RPIdle /\ MNIdle /\ EXIdle /\ VSIdle /\ CKIdle /\ PBIdle /\ DSIdle /\ RMIdle /\ SSIdle /\ XAIdle
NextIndex == IXNext /\ UNCHANGED <<btvars, stvars, cdvars, syvars, clvars, rsvars, rpvars, mnvars, exvars, vsvars, ckvars, pbvars, dsvars, rmvars, ssvars, xavars>>
SpecIndex == InitIndex /\ [][NextIndex]_vars

InitRm == RMInit /\ BTIdle /\ STIdle /\ CDIdle /\ SYIdle /\ CLIdle /\ RSIdle /\ RPIdle /\ MNIdle /\ EXIdle /\ VSIdle /\ CKIdle /\ PBIdle /\ DSIdle /\ IXIdle /\ SSIdle /\ XAIdle
NextRm == RMNext /\ UNCHANGED <<btvars, stvars, cdvars, syvars, clvars, rsvars, rpvars, mnvars, exvars, vsvars, ckvars, pbvars, dsvars, ixvars, ssvars, xavars>>
SpecRm == InitRm /\ [][NextRm]_vars

InitStats == SSInit /\ BTIdle /\ STIdle /\ CDIdle /\ SYIdle /\ CLIdle /\ RSIdle /\ RPIdle /\ MNIdle /\ EXIdle /\ VSIdle /\ CKIdle /\ PBIdle /\ DSIdle /\ IXIdle /\ RMIdle /\ XAIdle
NextStats == SSNext /\ UNCHANGED <<btvars, stvars, cdvars, syvars, clvars, rsvars, rpvars, mnvars, exvars, vsvars, ckvars, pbvars, dsvars, ixvars, rmvars, xavars>>
SpecStats == InitStats /\ [][NextStats]_vars

InitXattr == XAInit /\ BTIdle /\ STIdle /\ CDIdle /\ SYIdle /\ CLIdle /\ RSIdle /\ RPIdle /\ MNIdle /\ EXIdle /\ VSIdle /\ CKIdle /\ PBIdle /\ DSIdle /\ IXIdle /\ RMIdle /\ SSIdle
NextXattr == XANext /\ UNCHANGED <<btvars, stvars, cdvars, syvars, clvars, rsvars, rpvars, mnvars, exvars, vsvars, ckvars, pbvars, dsvars, ixvars, rmvars, ssvars>>
SpecXattr == InitXattr /\ [][NextXattr]_vars

\* Emit is straight-line code around one bounded loop and every call it
\* makes returns (http.Client.Do answers or fails), so a step that is
\* possible is eventually taken.
FairSpecReporter == SpecReporter /\ WF_vars(NextReporter)

\* A goroutine inside an Index method runs on: the Go scheduler gives it
\* time, and sync.Mutex hands a mutex that is released again and again to a
\* goroutine that waits for it (starvation mode).
FairSpecIndex == SpecIndex /\ \A g \in Goroutines : SF_ixvars(IndexStep(g))

(***************************************************************************)
(* Ground truth for the delta index.                                        *)
(***************************************************************************)
\* the keys of the store that hold delta entries / state records
DeltaKeys(c) == {k \in DOMAIN c : HasPrefix(k, DeltaPrefix \o ColonStr)}
StateKeys(c) == {k \in DOMAIN c : HasPrefix(k, StatePrefix \o ColonStr)}

\* the delta entries a cache holds, decoded
DeltasOf(c) == {DeltaEntryFromBytes(c[k]).de : k \in DeltaKeys(c)}

EntryKeys(des) == {<<e.Type, e.Blob>> : e \in des}

\* the entries of a set in ascending order of blob checksum
RECURSIVE SortByBlob(_)
SortByBlob(des) ==
    IF des = {} THEN <<>>
    ELSE LET m == CHOOSE x \in des : \A y \in des : x.Blob = y.Blob \/ LexLess(x.Blob, y.Blob)
         IN  <<m>> \o SortByBlob(des \ {m})

InsertFile(c, md, i) == InsertStateOp(c, md, files[i].id, files[i].rd)

(***************************************************************************)
(* C4: InsertState is idempotent.  Inserting a state whose id the cache     *)
(* knows returns nil without reading the stream and changes neither the     *)
(* delta entries nor the known states; inserting a state twice leaves the   *)
(* cache as inserting it once.                                              *)
(***************************************************************************)
C4_InsertStateIdempotent ==
    /\ \A i \in 1..Len(files) :
          LET r1 == InsertFile(db, Metadata, i)
              r2 == InsertFile(r1.db, r1.Metadata, i)
          IN  /\ HasState(db, files[i].id) =>
                    r1.err = NoErr /\ r1.pos = 0 /\ r1.db = db /\ r1.Metadata = Metadata
              /\ r2.db = r1.db
              /\ r1.err = NoErr => (r2.err = NoErr /\ r2.pos = 0)
    /\ (lastOp.op = "InsertState" /\ lastOp.twice /\ HasState(db, files[lastOp.arg[1]].id)) =>
          lastOp.res = [err |-> NoErr, pos |-> 0]

C4_Witness ==
    /\ lastOp.op = "InsertState" /\ lastOp.twice
    /\ HasState(db, files[lastOp.arg[1]].id)
    /\ lastOp.res.pos = 0
    /\ Cardinality(DeltaKeys(db)) >= 2

(***************************************************************************)
(* C5: merging is order-independent over distinct deltas.  For two state    *)
(* streams whose entries have disjoint (type, blob) keys, inserting one     *)
(* then the other leaves the same delta entries and the same known states   *)
(* as inserting them in the other order.                                    *)
(***************************************************************************)
DistinctDeltas(i, j) ==
    /\ files[i].id # files[j].id
    /\ EntryKeys(files[i].entries) \cap EntryKeys(files[j].entries) = {}

C5_InsertStateCommutes ==
    \A i, j \in 1..Len(files) :
        (i < j /\ DistinctDeltas(i, j)) =>
            LET a == InsertFile(db, Metadata, i)
                ab == InsertFile(a.db, a.Metadata, j)
                b == InsertFile(db, Metadata, j)
                ba == InsertFile(b.db, b.Metadata, i)
            IN  /\ ab.db = ba.db
                /\ DeltasOf(ab.db) = DeltasOf(ba.db)
                /\ GetStates(ab.db) = GetStates(ba.db)

C5_Witness ==
    /\ lastOp.op = "InsertState" /\ lastOp.res.err = NoErr /\ lastOp.res.pos > 0
    /\ \E i \in 1..Len(files) :
          /\ i # lastOp.arg[1]
          /\ DistinctDeltas(i, lastOp.arg[1])
          /\ HasState(db, files[i].id)
          /\ HasState(db, files[lastOp.arg[1]].id)
          /\ files[i].entries \cup files[lastOp.arg[1]].entries \subseteq DeltasOf(db)

(***************************************************************************)
(* C6: PutDelta is an idempotent insert.  Putting the same entry twice      *)
(* leaves the cache as putting it once; afterwards BlobExists is true for   *)
(* its (type, blob) and GetSubpartForBlob returns its packfile, offset and  *)
(* length.                                                                  *)
(***************************************************************************)
Subpart(de) ==
    [Packfile |-> de.Location.Packfile, Offset |-> de.Location.Offset,
     Length |-> de.Location.Length, found |-> TRUE]

C6_PutDeltaIdempotent ==
    /\ \A de \in PutInputs :
          LET d1 == PutDeltaOp(db, de)
          IN  /\ PutDeltaOp(d1, de) = d1
              /\ BlobExists(d1, de.Type, de.Blob)
              /\ GetSubpartForBlob(d1, de.Type, de.Blob) = Subpart(de)
              /\ SetPackfileForBlob(db, de.Type, de.Location.Packfile, de.Blob,
                                    de.Location.Offset, de.Location.Length) = d1
    /\ lastOp.op = "PutDelta" =>
          /\ BlobExists(db, lastOp.arg.Type, lastOp.arg.Blob)
          /\ GetSubpartForBlob(db, lastOp.arg.Type, lastOp.arg.Blob) = Subpart(lastOp.arg)

C6_Witness ==
    /\ lastOp.op = "PutDelta" /\ lastOp.twice
    /\ \E e \in inserted : e.Type = lastOp.arg.Type /\ e.Blob # lastOp.arg.Blob
    /\ GetSubpartForBlob(db, lastOp.arg.Type, lastOp.arg.Blob).Offset = <<65535, 65535>>

(***************************************************************************)
(* C7: BlobExists is decided from the local cache alone: it is true iff a   *)
(* delta entry for exactly (type, checksum) was inserted into the cache     *)
(* (an entry that only sits in a state file of the backend does not count), *)
(* and it agrees with the found flag of GetSubpartForBlob.                  *)
(***************************************************************************)
ProbeTypes == BlobTypes \cup {2, 100}
ProbeBlobs == Blobs \cup {PackP}

C7_BlobExistsIsCacheLookup ==
    /\ \A t \in ProbeTypes, c \in ProbeBlobs :
          /\ BlobExists(db, t, c) <=> (<<t, c>> \in EntryKeys(inserted))
          /\ BlobExists(db, t, c) <=> GetSubpartForBlob(db, t, c).found
    /\ lastOp.op = "BlobExists" =>
          lastOp.res = (<<lastOp.arg[1], lastOp.arg[2]>> \in EntryKeys(inserted))

C7_Witness ==
    /\ lastOp.op = "BlobExists" /\ lastOp.res = TRUE
    /\ \E t \in BlobTypes : t # lastOp.arg[1] /\ ~BlobExists(db, t, lastOp.arg[2])
    /\ \E i \in 1..Len(files) : \E e \in files[i].entries :
          ~HasState(db, files[i].id) /\ ~BlobExists(db, e.Type, e.Blob)

(***************************************************************************)
(* C8: GetDeltasByType(t) yields exactly the delta entries whose blob type  *)
(* is t, each once, in ascending order of blob checksum, and ListSnapshots  *)
(* yields exactly the checksums that have a SNAPSHOT-type delta.            *)
(***************************************************************************)
OfType(t) == SortByBlob({e \in inserted : e.Type = t})

C8_OneDigitTypesExact ==
    (\A e \in inserted : e.Type < 10) =>
        \A t \in {u \in BlobTypes : u < 10} :
            LET ds == GetDeltasByType(db, t)
                want == OfType(t)
            IN  /\ Len(ds) = Len(want)
                /\ \A i \in 1..Len(ds) :
                      /\ ds[i].csum = want[i].Blob
                      /\ DeltaEntryFromBytes(ds[i].data).de = want[i]

(***************************************************************************)
(* C9: state stream round trip.  The stream SerializeToStream writes is a   *)
(* sequence of ET_LOCATIONS-tagged 73-byte entries followed by one          *)
(* ET_METADATA record at the tail, and FromStream of it into an empty cache *)
(* reproduces the delta entries and the metadata (version, timestamp,       *)
(* aggregate flag, extends in the same order).                              *)
(***************************************************************************)
EntryRecordSize == 1 + DeltaEntrySerializedSize

C9_StreamRoundTrip ==
    w # NoStream =>
        LET n == Cardinality(DeltaKeys(db))
            tail == n * EntryRecordSize
        IN  /\ Len(w) = tail + 1 + 4 + 8 + 1 + 8 + ChecksumSize * Len(Metadata.Extends)
            /\ \A i \in 0..(n - 1) : w[i * EntryRecordSize + 1] = ET_LOCATIONS
            /\ w[tail + 1] = ET_METADATA
            /\ peer # NoPeer =>
                  /\ peer.err = NoErr
                  /\ peer.pos = Len(w)
                  /\ peer.Metadata = Metadata
                  /\ DeltaKeys(peer.db) = DeltaKeys(db)
                  /\ \A k \in DeltaKeys(db) : peer.db[k] = db[k]
                  /\ DeltasOf(peer.db) = inserted
                  /\ StateKeys(peer.db) = {}

C9_Witness ==
    /\ w # NoStream /\ peer # NoPeer /\ peer.err = NoErr
    /\ Metadata.Aggregate /\ Len(Metadata.Extends) = 2
    /\ Cardinality(inserted) >= 3
    /\ peer.Metadata.Extends = <<IdC, IdA>>

(***************************************************************************)
(* C10: the delta entry encoding round-trips.  ToBytes(de) is exactly 73    *)
(* bytes: 1 type byte, 32 blob bytes, 32 packfile bytes, the offset and the *)
(* length as 4 little-endian bytes each; DeltaEntryFromBytes of it returns  *)
(* de and no error.                                                         *)
(***************************************************************************)
\* the 16-bit halves <<hi, lo>> of the uint32 that 4 little-endian bytes spell
LittleEndian(b1, b2, b3, b4) == <<b3 + 256 * b4, b1 + 256 * b2>>

C10_DeltaEntryRoundTrip ==
    /\ cpc \in {"encoded", "decoded"} =>
          /\ Len(cbuf) = 73
          /\ DeltaEntrySerializedSize = 73
          /\ cbuf[1] = cde.Type
          /\ SubSeq(cbuf, 2, 33) = cde.Blob
          /\ SubSeq(cbuf, 34, 65) = cde.Location.Packfile
          /\ LittleEndian(cbuf[66], cbuf[67], cbuf[68], cbuf[69]) = cde.Location.Offset
          /\ LittleEndian(cbuf[70], cbuf[71], cbuf[72], cbuf[73]) = cde.Location.Length
    /\ cpc = "decoded" => cdec = [de |-> cde, err |-> NoErr]

C10_Witness ==
    /\ cpc = "decoded"
    /\ cdec.err = NoErr
    /\ cde.Type = 255
    /\ cde.Location.Offset = <<65535, 65535>>
    /\ cde.Location.Length = <<32768, 1>>

(***************************************************************************)
(* Ground truth for sync.                                                   *)
(***************************************************************************)
\* the first two hexadecimal digits of the id of each snapshot: 01, 10, 12
HexHead == << <<48, 49>>, <<49, 48>>, <<49, 50>> >>

\* the snapshot id argument selects snapshot n
Selected(n) ==
    SubSeq(HexHead[n], 1, Len(syargs.syncSnapshotID)) = syargs.syncSnapshotID

\* the snapshots repository a held and b lacked when the command started
Lacking(a, b) == {n \in sybefore[a] \ sybefore[b] : Selected(n)}

SeqRange(s) == {s[i] : i \in 1..Len(s)}

\* the snapshots synchronize was called for with source a
Attempted(a) == {syncerrs[i].id : i \in {j \in 1..Len(syncerrs) : syncerrs[j].src = a}}

\* the source the direction names
SourceOf(d) == IF d = "from" THEN "peerRepository" ELSE "repo"
TargetOf(d) == IF d = "from" THEN "repo" ELSE "peerRepository"

SyncReturnedZero == sypc = "done" /\ syret.status = 0

\* C11: with direction to (source: the local repository) or from (source:
\* the peer), the snapshots sync transfers are exactly those of the source that
\* the destination lacks, restricted to the ids starting with the snapshot id
\* argument when there is one: the list holds each of them once, synchronize is
\* called for them only, from the source only, and for all of them by the end;
\* the source keeps its snapshots and the destination gains none but these.
C11_SyncTransfersSourceMinusDestination ==
    (syargs.direction \in {"to", "from"} /\ sypc \in {"pass1", "done"} /\ syret.status # 1) =>
        /\ SeqRange(srcSyncList) = Lacking(SourceOf(syargs.direction), TargetOf(syargs.direction))
        /\ Len(srcSyncList) = Cardinality(SeqRange(srcSyncList))
        /\ Attempted(TargetOf(syargs.direction)) = {}
        /\ Attempted(SourceOf(syargs.direction)) \subseteq SeqRange(srcSyncList)
        /\ sypc = "done" => Attempted(SourceOf(syargs.direction)) = SeqRange(srcSyncList)
        /\ repos[SourceOf(syargs.direction)].snapshots = sybefore[SourceOf(syargs.direction)]
        /\ repos[TargetOf(syargs.direction)].snapshots \subseteq
              sybefore[TargetOf(syargs.direction)] \cup SeqRange(srcSyncList)
        /\ sybefore[TargetOf(syargs.direction)] \subseteq repos[TargetOf(syargs.direction)].snapshots

\* a sync from the peer with a snapshot id argument that leaves out a snapshot
\* the local repository lacks, finished with every selected snapshot committed
C11_Witness ==
    /\ SyncReturnedZero /\ syargs.direction = "from" /\ syargs.syncSnapshotID # <<>>
    /\ srcSyncList # <<>>
    /\ SeqRange(srcSyncList) # sybefore["peerRepository"] \ sybefore["repo"]
    /\ SeqRange(srcSyncList) \subseteq repos["repo"].snapshots

Opposite(src) == IF src = "repo" THEN "peerRepository" ELSE "repo"

\* C13: synchronize commits the destination snapshot only after every blob
\* of the source snapshot that the destination lacked was put: a snapshot that
\* synchronize committed (it returned nil) references no blob missing from the
\* destination, and a failure to list, fetch or put a blob is returned instead
\* of committing.
C13_CommittedSnapshotIsClosed ==
    \A i \in 1..Len(syncerrs) :
        syncerrs[i].err = NoErr =>
            /\ syncerrs[i].id \in repos[Opposite(syncerrs[i].src)].snapshots
            /\ BlobsOf(syncerrs[i].id) \subseteq repos[Opposite(syncerrs[i].src)].blobs

\* C13, the part the code keeps: a synchronize that returned an error (Load,
\* Clone, a list, an iterator, GetBlob or Commit failed) left its snapshot out
\* of the destination, and Commit is the last step of the call.
C13_ReturnedErrorsNeverCommit ==
    /\ \A i \in 1..Len(syncerrs) :
          syncerrs[i].err # NoErr =>
              syncerrs[i].id \notin repos[Opposite(syncerrs[i].src)].snapshots
    /\ sy # NoSync => sy.id \notin repos[To].snapshots

\* the snapshots synchronize was called for, in call order
CalledFor == [i \in 1..Len(syncerrs) |-> syncerrs[i].id]

\* C14: a failed synchronize does not abort the batch: the calls made so far
\* are for the head of the sync list (of both lists, for direction with), in
\* its order, and when cmd_sync returns after its loops synchronize has been
\* called once for every snapshot of the list, whatever the earlier calls
\* returned.
C14_EverySnapshotIsAttempted ==
    /\ IsPrefixOf(CalledFor, srcSyncList \o dstSyncList)
    /\ SyncReturnedZero => CalledFor = srcSyncList \o dstSyncList

\* cmd_sync returned after a synchronize failed and a later snapshot of the
\* list was still synchronized and committed
C14_Witness ==
    /\ SyncReturnedZero
    /\ \E i, j \in 1..Len(syncerrs) :
          /\ i < j
          /\ syncerrs[i].err # NoErr
          /\ syncerrs[j].err = NoErr
          /\ syncerrs[j].id \in repos[Opposite(syncerrs[j].src)].snapshots

NoSyncFailed == \A i \in 1..Len(syncerrs) : syncerrs[i].err = NoErr

\* C15: direction with is symmetric: the snapshots (selected by the snapshot
\* id argument, if any) the local repository had and the peer lacked are
\* synchronized local -> peer, those the peer had and the local repository
\* lacked are synchronized peer -> local, and when no synchronize failed each
\* repository ends with its own snapshots and the selected ones of the other:
\* with no snapshot id argument, both end with the union of the two sets.
C15_WithIsSymmetric ==
    (syargs.direction = "with" /\ sypc \in {"pass1", "pass2", "done"} /\ syret.status # 1) =>
        /\ SeqRange(srcSyncList) = Lacking("repo", "peerRepository")
        /\ Attempted("repo") \subseteq Lacking("repo", "peerRepository")
        /\ Attempted("peerRepository") \subseteq Lacking("peerRepository", "repo")
        /\ sypc = "pass1" => Attempted("peerRepository") = {}
        /\ sypc \in {"pass2", "done"} =>
              /\ SeqRange(dstSyncList) = Lacking("peerRepository", "repo")
              /\ Attempted("repo") = Lacking("repo", "peerRepository")
        /\ sypc = "done" => Attempted("peerRepository") = Lacking("peerRepository", "repo")
        /\ (sypc = "done" /\ NoSyncFailed) =>
              /\ repos["repo"].snapshots =
                    sybefore["repo"] \cup Lacking("peerRepository", "repo")
              /\ repos["peerRepository"].snapshots =
                    sybefore["peerRepository"] \cup Lacking("repo", "peerRepository")
              /\ syargs.syncSnapshotID = <<>> =>
                    /\ repos["repo"].snapshots = sybefore["repo"] \cup sybefore["peerRepository"]
                    /\ repos["peerRepository"].snapshots = repos["repo"].snapshots

\* a sync with the peer, no snapshot id argument, each side holding a snapshot
\* the other lacked, finished without a failure with both holding the union
C15_Witness ==
    /\ SyncReturnedZero /\ syargs.direction = "with" /\ syargs.syncSnapshotID = <<>>
    /\ NoSyncFailed
    /\ sybefore["repo"] \ sybefore["peerRepository"] # {}
    /\ sybefore["peerRepository"] \ sybefore["repo"] # {}
    /\ Attempted("repo") # {} /\ Attempted("peerRepository") # {}
    /\ repos["repo"].snapshots = sybefore["repo"] \cup sybefore["peerRepository"]
    /\ repos["peerRepository"].snapshots = repos["repo"].snapshots

\* C16: sync returns status 0 only on success: when cmd_sync returns 0, no
\* call of synchronize for a snapshot of its sync lists returned an error.
C16_ZeroOnlyWhenEverySnapshotSynchronized ==
    SyncReturnedZero => NoSyncFailed

(***************************************************************************)
(* Claims on clone.                                                         *)
(***************************************************************************)
AllDone(go, S) == DOMAIN go = S /\ \A c \in S : go[c] = "done"

CloneReturnedZero == clpc = "done" /\ clret.status = 0

\* C17: in clone no state file is written before the copy of every packfile
\* has finished: once a state goroutine exists, and so whenever PutState has
\* been called on the clone, every packfile goroutine has returned; and when
\* cmd_clone has returned 0 every state goroutine has returned.
C17_StatesOnlyAfterEveryPackfile ==
    /\ (putStateIssued \/ DOMAIN gostate # {} \/ clpc = "states" \/ cloneStore.states # {}) =>
          AllDone(gopack, sourceStore.packfiles)
    /\ CloneReturnedZero => AllDone(gostate, sourceStore.states)

\* a clone of two packfiles and two states that returned after PutState calls
C17_Witness ==
    /\ CloneReturnedZero /\ putStateIssued
    /\ sourceStore.packfiles = Checksums /\ sourceStore.states = Checksums
    /\ cloneStore.states # {}

\* C18: when cmd_clone returns status 0 the clone holds every packfile and
\* every state file the source listed (a failed get or put makes it return
\* non-zero).
C18_ZeroMeansEverythingCopied ==
    CloneReturnedZero =>
        /\ sourceStore.packfiles \subseteq cloneStore.packfiles
        /\ sourceStore.states \subseteq cloneStore.states

(***************************************************************************)
(* Claims on restore.                                                       *)
(***************************************************************************)
\* the (working directory, importer directory) pairs of the inputs where the
\* working directory is the importer directory or lies below it
Covering == {<<DirA, DirA>>, <<DirAB, DirA>>, <<DirAB, DirAB>>, <<DirB \o DirA, DirB>>}

\* the headers whose importer directory covers the working directory
CoveringHeaders == {i \in 1..Len(rsheaders) : <<rsctx.CWD, rsheaders[i].Directory>> \in Covering}

RestoreDefaultDone == rspc = "done" /\ rsargs.args = <<>> /\ rsret.err # ErrLoad

\* C19: restore with no snapshot argument, on a repository that holds at
\* least one snapshot, restores the most recent snapshot and returns status 0
\* with no error, whatever the working directory is.
C19_DefaultRestoresMostRecent ==
    (RestoreDefaultDone /\ rsheaders # <<>>) =>
        /\ rsret = [status |-> 0, err |-> NoErr]
        /\ Len(restored) = 1
        /\ restored[1].id = Last(rsheaders).IndexID

\* C19, what the code does: it restores the most recent of the snapshots
\* whose importer directory is the working directory or an ancestor of it,
\* restricted to the working directory, and returns 0; when there is no such
\* snapshot it restores nothing and returns 1 with an error.
C19_DefaultRestoresMostRecentCoveringCWD ==
    RestoreDefaultDone =>
        IF CoveringHeaders = {}
        THEN rsret = [status |-> 1, err |-> ErrNoSnapshotForPath] /\ restored = <<>>
        ELSE /\ rsret = [status |-> 0, err |-> NoErr]
             /\ Len(restored) = 1
             /\ \E i \in CoveringHeaders :
                   /\ \A j \in CoveringHeaders : j <= i
                   /\ restored[1].id = rsheaders[i].IndexID
                   /\ restored[1].base = rsctx.CWD /\ restored[1].pattern = rsctx.CWD

\* what each snapshot argument of the inputs names: the id and the pattern
Expect(arg) ==
    IF arg = <<49>> THEN [id |-> <<49>>, pattern |-> <<47>>]
    ELSE IF arg = <<51>> THEN [id |-> <<51>>, pattern |-> <<47>>]
    ELSE IF arg = <<57>> THEN [id |-> <<57>>, pattern |-> <<47>>]
    ELSE IF arg = <<49, 58, 47, 97, 47, 97>> THEN [id |-> <<49>>, pattern |-> <<47, 97, 47, 97>>]
    ELSE IF arg = <<49, 58, 47, 97, 47, 98>> THEN [id |-> <<49>>, pattern |-> <<47, 97, 47, 98>>]
    ELSE [id |-> <<50>>, pattern |-> <<47, 97, 47, 98, 47, 98>>]

Known(id) == \E i \in 1..Len(rsheaders) : rsheaders[i].IndexID = id

\* the nodes of the snapshot of the argument at offset that its pattern selects
Selection(offset) ==
    {p \in Nodes(CHOOSE h \in SeqRange(rsheaders) : h.IndexID = Expect(rsargs.args[offset]).id) :
        Under(p, Expect(rsargs.args[offset]).pattern)}

\* index of the last line printed for the arguments up to offset
EndOf(offset) ==
    IF offset = 0 THEN 0
    ELSE IF offset = 1 THEN Cardinality(Selection(1)) + 1
    ELSE Cardinality(Selection(1)) + 1 + Cardinality(Selection(2)) + 1

RestoreSnapshotsDone ==
    /\ rspc = "done" /\ rsargs.args # <<>>
    /\ \A offset \in 1..Len(rsargs.args) : Known(Expect(rsargs.args[offset]).id)

FinalErrorLogged ==
    \E k \in 1..Len(rplog) : rplog[k].level = "error" /\ rplog[k].msg = "tries"

AllAttemptsFailed ==
    /\ Len(rpanswers) = reporter.retry
    /\ \A k \in 1..Len(rpanswers) : rpanswers[k] # NoError

EmitIsBounded ==
    /\ Len(rpanswers) <= reporter.retry
    /\ \A k \in 1..Len(rpanswers) : rpanswers[k] = NoError =>
        k = Len(rpanswers) /\ rppc = "returned"
    /\ FinalErrorLogged => rppc = "returned" /\ AllAttemptsFailed
    /\ rppc \in {"idle", "loop", "returned"}

\* C21: Emit calls tryEmit at most retry times, makes no attempt after the
\* first one that succeeded (2xx), logs the final "failed after N tries"
\* error only when all retry attempts failed, and always returns.
C21_EmitIsBoundedAndReturns == [](EmitIsBounded) /\ <>(rppc = "returned")

C21_Witness ==
    /\ rppc = "returned" /\ reporter.retry = MaxRetry /\ reporter.urlParses
    /\ AllAttemptsFailed /\ FinalErrorLogged
    /\ rpanswers[1] = Error(ErrDo, 0)

(***************************************************************************)
(* cmd/plakar/plakar.go: claims about main.                                *)
(***************************************************************************)
CreateCalls == {k \in 1..Len(mncalls) : mncalls[k].cmd = "create"}

\* C22: plakar create exits with a status > 0 when an error occurred while
\* creating the repository, and with 0 only when the repository was created.
C22_CreateExitsZeroOnlyWhenCreated ==
    mnpc = "exited" /\ command = "create" =>
        /\ mnexit = 0 => \E k \in CreateCalls : mncalls[k].outcome = "created"
        /\ (\E k \in CreateCalls : mncalls[k].outcome # "created") => mnexit > 0

\* Holds: what main does guarantee for create is that a missing key pair
\* ends the process with status 1 before cmd_create is called.
C22_CreateNeedsTheKeypair ==
    mnpc = "exited" /\ command = "create" /\ mnerr # "none" =>
        mnexit = 1 /\ CreateCalls = {}

LogOptionIsInvalid ==
    mnargs.log.given /\ mnargs.log.value \notin {"full", "progress"}

\* C23: when the user passes a value of -log other than full or progress,
\* plakar prints its usage and exits with status 1 before running any command.
C23_InvalidLogIsRejectedBeforeAnyCommand ==
    mnpc # "idle" /\ LogOptionIsInvalid =>
        /\ mncalls = <<>>
        /\ mnpc = "exited" => mnexit = 1 /\ mnout = <<"usage">>

(***************************************************************************)
(* snapshot/exporter: claims about NewExporter and the registry.           *)
(***************************************************************************)
\* the text before the first "://" of a location that has one
SchemeOf(location) ==
    SubSeq(location, 1,
           (CHOOSE i \in 1..(Len(location) - 2) :
               /\ SubSeq(location, i, i + 2) = SchemeSep
               /\ \A j \in 1..(i - 1) : SubSeq(location, j, j + 2) # SchemeSep) - 1)

HasScheme(location) ==
    \E i \in 1..(Len(location) - 2) : SubSeq(location, i, i + 2) = SchemeSep

KnownSchemes == {StrS3, StrFs, StrFtp, StrSftp}

\* what the selection rule of the description asks of NewExporter
Selects(location) ==
    IF location # <<>> /\ location[1] = 47 THEN StrFs
    ELSE IF ~HasScheme(location) THEN StrFs
    ELSE IF SchemeOf(location) \in KnownSchemes THEN SchemeOf(location)
    ELSE <<>>

\* C24: NewExporter selects the backend by the scheme of the location (s3,
\* fs, ftp, sftp; a leading '/' or no "://" selects fs); another scheme is
\* 'unsupported exporter protocol', no location is 'missing location', and a
\* selected backend that is not registered is an error, not an exporter.
C24_NewExporterSelectsByScheme ==
    exret.op = "NewExporter" =>
        IF ~exret.config.has THEN exret.res = [exporter |-> <<>>, err |-> ErrMissingLocation]
        ELSE IF Selects(exret.config.location) = <<>>
             THEN exret.res = [exporter |-> <<>>, err |-> ErrUnsupported]
        ELSE IF Selects(exret.config.location) \notin exret.at
             THEN exret.res = [exporter |-> <<>>, err |-> ErrNoBackend]
        ELSE \/ exret.res = [exporter |-> Selects(exret.config.location), err |-> "none"]
             \/ exret.res = [exporter |-> <<>>, err |-> ErrFactory]

C24_Witness ==
    /\ exret.op = "NewExporter"
    /\ exret.config.location = StrX \o StrS3 \o SchemeSep
    /\ exret.res.err = ErrUnsupported
    /\ StrS3 \in exret.at

\* C25: a name is bound to at most one factory for the life of the process
\* (a second Register of it aborts and never stores), the bodies of Register
\* run one at a time, and Backends() returns every registered name exactly
\* once in strictly ascending order.
C25_RegistryBindsOnceAndListsSorted ==
    /\ \A i, j \in 1..Len(exstores) : exstores[i][1] = exstores[j][1] => i = j
    /\ \A n \in DOMAIN backends : \E i \in 1..Len(exstores) : exstores[i] = <<n, backends[n]>>
    /\ Cardinality({g \in Goroutines : exgo[g].pc \in {"check", "store", "unlock"}}) <= 1
    /\ \A g \in Goroutines : exgo[g].pc \in {"check", "store", "unlock"} => muBackends = g
    /\ exret.op = "Backends" =>
        /\ {exret.list[i] : i \in 1..Len(exret.list)} = exret.at
        /\ \A i \in 1..(Len(exret.list) - 1) : LexLess(exret.list[i], exret.list[i + 1])

C25_Witness ==
    /\ exaborted
    /\ exret.op = "Backends" /\ Len(exret.list) = Cardinality(BackendNames)
    /\ \E i, j \in 1..Len(exstores) : exstores[i][2] # exstores[j][2]
    /\ \E g \in Goroutines : exgo[g].pc = "lock"

(***************************************************************************)
(* btree/iter.go: claims about VisitDFS and about the iterators' Err.      *)
(***************************************************************************)
\* the pointers of the nodes under ptr, a parent before its children and
\* the children in the order of Pointers
RECURSIVE Preorder(_, _)
RECURSIVE PreorderAll(_, _)
Preorder(st, ptr) == <<ptr>> \o PreorderAll(st, st[ptr].Pointers)
PreorderAll(st, ptrs) ==
    IF ptrs = <<>> THEN <<>>
    ELSE Preorder(st, Head(ptrs)) \o PreorderAll(st, Tail(ptrs))

Visited == [i \in 1..Len(vcalls) |-> vcalls[i][1]]

\* C26: VisitDFS calls cb exactly once for every node reachable from the
\* root, with the node and its own pointer, a parent before its children
\* and children in pointer order; it returns the first error of the store
\* or of cb and calls nothing after it, and returns nil only after the
\* whole tree has been visited.
C26_VisitDFSIsPreorder ==
    vpc # "idle" =>
        /\ IsPrefixOf(Visited, Preorder(store, Root))
        /\ \A i \in 1..Len(vcalls) : vcalls[i][2] = store[vcalls[i][1]]
        /\ (vpc = "done" /\ vret = NoErr) => Visited = Preorder(store, Root)
        /\ (vpc = "done") => vret \in {NoErr, ErrGet, ErrCb}
        /\ (vpc = "done" /\ vret = ErrCb) => Len(vcalls) >= 1
        /\ vpc = "loop" => vret = "none"

C26_Witness ==
    /\ vpc = "done" /\ vret = NoErr
    /\ Height(store, Root) >= 3
    /\ Len(vcalls) >= 7
    /\ Len(store[Root].Pointers) >= 2

IterIsOpen == it.kind \in {"fwd", "bwd"}

\* what the open iterator yields when it is run to the end of the stream
WholeStream ==
    IF mode = "all" THEN AllPairs
    ELSE IF mode = "from" THEN PairsFrom(fromKey)
    ELSE Reverse(AllPairs)

\* C27: for the forward and the backward iterator, Next returning false
\* with Err() = nil is the end of the stream and Err() is non-nil only
\* because a Get of the store failed; once it is non-nil every later Next
\* returns false and Err() keeps returning the same error.
C27_ErrTellsFailureFromEnd ==
    /\ [](IterIsOpen =>
            /\ (ret = "false" /\ it.err = NoErr) => yielded = WholeStream
            /\ it.err # NoErr => it.err = ErrGet /\ ret = "false")
    /\ [][(IterIsOpen /\ it'.kind = it.kind) =>
            /\ (it.err = NoErr /\ it'.err # NoErr) => bad # Nil /\ yielded # WholeStream
            /\ it.err # NoErr => it' = it /\ ret' = "false" /\ yielded' = yielded]_vars

C27_Witness ==
    /\ IterIsOpen /\ it.err = ErrGet /\ bad = Nil
    /\ extra = MaxExtraNext
    /\ Len(yielded) >= 2

(***************************************************************************)
(* cmd/plakar/subcommands/checksum: claims about displayChecksums.         *)
(***************************************************************************)
\* C28: without -fast the digest printed for a regular file is the digest of
\* the content read back from the snapshot; with -fast it is the recorded
\* checksum of the object and the content is not read.
C28_WithoutFastTheContentDigestIsPrinted ==
    (ckpc = "done" /\ ckret = "nil") =>
        /\ ~fastcheck => ckout = <<Sum(ckfile.content)>>
        /\ fastcheck => ckout = <<ckfile.recorded>> /\ hasher = NoHasher

\* Holds: what is printed is the recorded checksum with and without -fast;
\* without -fast the content is read into the hasher first.
C28_TheRecordedChecksumIsPrinted ==
    (ckpc = "done" /\ ckret = "nil") =>
        /\ ckout = <<ckfile.recorded>>
        /\ hasher = IF fastcheck THEN NoHasher ELSE ckfile.content

(***************************************************************************)
(* repository/state: claims about InsertState on damaged streams and about *)
(* the keys of the delta entries.                                          *)
(***************************************************************************)
Merged(c, i) ==
    /\ \A e \in files[i].entries : GetDelta(c, e.Type, e.Blob) = ToBytes(e)
    /\ get(c, StatePrefix, SprintfX(files[i].id)) = MetadataToBytes(files[i].md)

\* C29: InsertState records the state id (PutState) only once every delta
\* entry and the metadata of the stream have been read and inserted; on a
\* stream that ends early it returns an error and the known states are
\* unchanged, so that a later InsertState of the id reads the stream again.
C29_PublishedOnlyWhenMerged ==
    /\ [](lastOp.op = "InsertState" =>
            /\ (lastOp.arg[2] > 0 /\ ~HasState(db, files[lastOp.arg[1]].id)) =>
                    lastOp.res.err # NoErr
            /\ lastOp.arg[2] = 0 =>
                    lastOp.res.err = NoErr /\ HasState(db, files[lastOp.arg[1]].id))
    /\ [][\A i \in 1..Len(files) :
            /\ (~HasState(db, files[i].id) /\ HasState(db', files[i].id)) =>
                    /\ lastOp'.arg = <<i, 0>>
                    /\ lastOp'.res = [err |-> NoErr, pos |-> Len(files[i].rd)]
                    /\ Merged(db', i)
                    /\ Metadata' = files[i].md
            /\ (lastOp'.op = "InsertState" /\ lastOp'.res.err # NoErr) =>
                    StateKeys(db') = StateKeys(db)]_vars

C29_Witness ==
    /\ lastOp.op = "InsertState" /\ lastOp.arg = <<1, 0>>
    /\ 1 \in pbfailed
    /\ lastOp.res = [err |-> NoErr, pos |-> Len(files[1].rd)]
    /\ HasState(db, files[1].id)
    /\ Cardinality(StateKeys(db)) = 1

\* C30: delta entries are keyed by type, blob and issuing state, so two
\* states that insert an entry for the same (type, blob) each keep theirs.
C30_EachStateKeepsItsEntry ==
    \A i \in 1..Len(files) :
        HasState(db, files[i].id) => files[i].entries \subseteq DeltasOf(db)

\* Holds: the cache keeps one entry per (type, blob), whichever states
\* inserted entries for it.
C30_OneEntryPerTypeAndBlob ==
    /\ Cardinality(DeltasOf(db)) = Cardinality(EntryKeys(DeltasOf(db)))
    /\ \A k \in DeltaKeys(db) :
          \E e \in DeltasOf(db) : k = DeltaPrefix \o ColonStr \o DeltaKey(e.Type, e.Blob)

\* the ids GetStates lists
ListedStates(c) == {GetStates(c)[i] : i \in 1..Len(GetStates(c))}

\* a step of DelState(id) takes the record of id away and nothing else
DelStateFrame ==
    lastOp'.op = "DelState" =>
        LET id == lastOp'.arg[1]
            gone == FullKey(StatePrefix, SprintfX(id))
        IN  /\ ~HasState(db', id)
            /\ id \notin ListedStates(db')
            /\ DOMAIN db' = (DOMAIN db) \ {gone}
            /\ \A k \in DOMAIN db' : db'[k] = db[k]
            /\ DeltasOf(db') = DeltasOf(db)

\* C31: DelState(id) removes the state record of id alone: HasState(id) is
\* false afterwards and GetStates no longer lists id, every delta entry and
\* every other state record is as it was; and GetStates lists exactly the ids
\* put and not deleted since, each once.
C31_DelStateRemovesOnlyTheRecord ==
    /\ [](/\ ListedStates(db) = dsput
          /\ Len(GetStates(db)) = Cardinality(dsput)
          /\ \A id \in StateIds : HasState(db, id) <=> id \in dsput)
    /\ [][DelStateFrame]_vars

\* DelState of a state inserted from a file, its delta entries and another
\* state record staying behind
C31_Witness ==
    /\ lastOp.op = "DelState" /\ lastOp.arg[1] = IdA
    /\ DeltasOf(db) # {}
    /\ EntryKeys(InputStates[1].entries) \subseteq EntryKeys(DeltasOf(db))
    /\ dsput = {IdB}

(***************************************************************************)
(* Ground truth for the index.                                              *)
(***************************************************************************)
\* the chunks or objects an index has a packfile for
Associated(index, kind) ==
    {c \in DOMAIN index.Checksums : index.Checksums[c] \in DOMAIN KindMap(index, kind)}

\* the mutex the next step of a goroutine locks
Wants(g) ==
    IF ixpc[g] = "LockKind" THEN KindMutex(ixfr[g].kind)
    ELSE IF ixpc[g] \in {"MergeLock", "MergeAdd", "AddItem", "AddPack", "GetRead"}
    THEN "muChecksums"
    ELSE "none"

\* what Merge does when it does return: the delta had no chunk and no object
\* in a packfile and no checksum the index lacked, and the index is as before
MergeReturnsOnlyWithNothingToDo ==
    [][(ixpc[Merger] # "Idle" /\ ixfr[Merger].op = "Merge" /\ ixpc'[Merger] = "Idle")
          => /\ MergeCalls(ixfr[Merger].delta) = <<>>
             /\ DOMAIN ixfr[Merger].delta.Checksums \subseteq DOMAIN ix.Checksums
             /\ ix' = ix]_vars

\* a goroutine in Merge holds muChecksums and waits for muChunks while another
\* in SetPackfileForChunk or GetPackfileForChunk holds muChunks and waits for
\* muChecksums
MergeAndWorkerBlockEachOther ==
    /\ Holds(Merger, "muChecksums") /\ Wants(Merger) = "muChunks"
    /\ Holds(Worker, "muChunks") /\ Wants(Worker) = "muChecksums"

\* C32: a Merge of a delta that has a chunk or an object in a packfile comes
\* back (unless the program panics meanwhile) and the index then has a
\* packfile for every chunk and object the delta has one for.
C32_MergeBringsTheAssociations ==
    \A d \in Deltas :
        (ixpc[Merger] = "MergeLock" /\ ixfr[Merger].delta = d /\ MergeCalls(d) # <<>>)
        ~> \/ ixpanic # "none"
           \/ /\ ixpc[Merger] = "Idle"
              /\ \A kind \in {"Chunks", "Objects"} :
                     Associated(d, kind) \subseteq Associated(ix, kind)

\* C33: a goroutine inside Merge is never about to lock a mutex it holds
\* itself, whatever the delta.
C33_MergeNeverWaitsForItsOwnMutex ==
    \A g \in Goroutines :
        (InCall(g) /\ ixfr[g].op = "Merge") => ~Holds(g, Wants(g))

\* C34: a goroutine that holds two Index mutexes locked muChunks or
\* muObjects first and muChecksums second, and none is about to lock
\* muChunks or muObjects while it holds muChecksums.
C34_KindMutexIsLockedBeforeMuChecksums ==
    \A g \in Goroutines :
        /\ Len(ixheld[g]) > 1 => ixheld[g][1] # "muChecksums"
        /\ (InCall(g) /\ Wants(g) \in {"muChunks", "muObjects"}) => ~Holds(g, "muChecksums")

\* C35: while the program runs, Checksums and checksumsInverse are inverses
\* of each other: every checksum maps to an id that maps back to it, and
\* every id of the inverse belongs to a checksum.
C35_InterningIsABijection ==
    ixpanic = "none" =>
        /\ \A c \in DOMAIN ix.Checksums :
               /\ ix.Checksums[c] \in DOMAIN ix.checksumsInverse
               /\ ix.checksumsInverse[ix.Checksums[c]] = c
        /\ \A id \in DOMAIN ix.checksumsInverse :
               ix.checksumsInverse[id] \in DOMAIN ix.Checksums

\* C36: no step of GetPackfileForChunk or GetPackfileForObject that leaves
\* the program running changes the index: Checksums, checksumsInverse,
\* checksumID, Chunks and Objects are as before it.
C36_LookupsLeaveTheIndexAlone ==
    [][\A g \in Goroutines :
          (ixfr[g].op = "Get" /\ ixpc'[g] # ixpc[g] /\ ixpanic' = "none") => ix' = ix]_vars

(***************************************************************************)
(* Ground truth for rm.                                                     *)
(***************************************************************************)
\* the snapshots of the store rm started on that an argument designates: those
\* whose id starts with the part of the argument before its first colon
Designated(arg) ==
    {id \in {rmlist[i] : i \in 1..Len(rmlist)} : IsPrefixOf(ParseSnapshotID(arg).prefix, id)}

AllResolve == \A i \in 1..Len(rmargs) : Cardinality(Designated(rmargs[i])) = 1

\* C37: rm purges nothing unless every argument designates exactly one
\* snapshot: when some argument, at any position, designates none or several,
\* rm ends in log.Fatalf with nothing purged and the store as it was; and what
\* is purged is, in order, the snapshot each argument designates.
C37_RmValidatesBeforeItPurges ==
    /\ rmpurged # <<>> => AllResolve
    /\ (rmpc \in {"purge", "done"}) => AllResolve
    /\ (rmpc = "fatal" /\ ~AllResolve) =>
           /\ rmret.status = 1
           /\ rmret.fatal \in {FatalNoArgs, FatalNoSnapshot, FatalAmbiguous}
           /\ rmpurged = <<>>
           /\ rmstore = {rmlist[i] : i \in 1..Len(rmlist)}
    /\ \A i \in 1..Len(rmpurged) : rmpurged[i] \in Designated(rmargs[i])

\* rm of two arguments that resolve has purged both
RmPurgedBoth == rmpc = "done" /\ Len(rmpurged) = 2 /\ rmstore # {rmlist[i] : i \in 1..Len(rmlist)}

\* rm of two arguments of which only the second is ambiguous has ended without
\* a purge
C37_Witness ==
    /\ rmpc = "fatal" /\ Len(rmargs) = 2
    /\ Cardinality(Designated(rmargs[1])) = 1
    /\ Cardinality(Designated(rmargs[2])) > 1
    /\ rmpurged = <<>>

(***************************************************************************)
(* Ground truth for stats.                                                  *)
(***************************************************************************)
\* the snapshots of the store that load and reference a chunk / an object
ChunkRefs(c) ==
    {i \in (1..Len(ssin.snapshots)) \ ssin.loadFails : c \in ssin.snapshots[i].Chunks}
ObjectRefs(c) ==
    {i \in (1..Len(ssin.snapshots)) \ ssin.loadFails : c \in ssin.snapshots[i].Objects}

\* the referenced chunks / objects whose size the store gives
SizedChunks == {c \in StatChunks : ChunkRefs(c) # {} /\ c \notin ssin.sizeFails}
SizedObjects == {c \in StatObjects : ObjectRefs(c) # {} /\ c \notin ssin.sizeFails}

RECURSIVE Total(_, _)
Total(S, f) ==
    IF S = {} THEN 0
    ELSE LET x == CHOOSE y \in S : TRUE IN f[x] + Total(S \ {x}, f)

StatsDone == sspc = "done" /\ ssout.status = 0

ChunkSizesAreRight ==
    /\ ssout.chunksSize = Total(SizedChunks, [c \in SizedChunks |-> ChunkSize(c)])
    /\ ssout.dedupedChunksSize =
           Total(SizedChunks, [c \in SizedChunks |-> ChunkSize(c) * Cardinality(ChunkRefs(c))])

ObjectSizesAreRight ==
    /\ ssout.objectsSize = Total(SizedObjects, [c \in SizedObjects |-> ObjectSize(c)])
    /\ ssout.dedupedObjectsSize =
           Total(SizedObjects, [c \in SizedObjects |-> ObjectSize(c) * Cardinality(ObjectRefs(c))])

\* C38: stats computes, for chunks and for objects alike, the stored size as
\* the sum of the sizes of the distinct referenced items and the real size as
\* the sum of size times the number of snapshots that reference the item; for
\* an object that number is the object's own.
C38_StoredAndRealSizes == StatsDone => (ChunkSizesAreRight /\ ObjectSizesAreRight)

\* what holds: the two chunk sizes and the stored size of the objects are
\* right; the real size of the objects is the sum of size times the number of
\* snapshots that reference a chunk of the same checksum
C38_ObjectsAreWeighedByChunkCounts ==
    StatsDone =>
        /\ ChunkSizesAreRight
        /\ ssout.objectsSize = Total(SizedObjects, [c \in SizedObjects |-> ObjectSize(c)])
        /\ ssout.dedupedObjectsSize =
               Total(SizedObjects,
                     [c \in SizedObjects |->
                         ObjectSize(c) * (IF c \in StatChunks THEN Cardinality(ChunkRefs(c)) ELSE 0)])

(***************************************************************************)
(* Ground truth for the xattr keys.                                         *)
(***************************************************************************)
\* the xattrs of the type of the one at hand
SameTypeXattrs ==
    {[Type |-> xattr.Type, Path |-> p, Name |-> n] :
        p \in XattrStrings(xattr.Type, MaxPathLen), n \in XattrStrings(xattr.Type, MaxNameLen)}

EndsWithBackslash(s) == s # <<>> /\ s[Len(s)] = Backslash

\* the key is the path, the separator and the name with a backslash before
\* each of its separators and backslashes
KeyIsJoinOfPathAndEscapedName ==
    \E e \in {EscapeName(xattr.Name, SepOf(xattr.Type))} :
        /\ xkey = xattr.Path \o <<SepOf(xattr.Type)>> \o e
        /\ Len(e) = Len(xattr.Name)
                    + Cardinality({i \in 1..Len(xattr.Name) :
                                      xattr.Name[i] \in {SepOf(xattr.Type), Backslash}})
        /\ \A i \in 1..Len(e) :
               e[i] = SepOf(xattr.Type) => (i > 1 /\ e[i - 1] = Backslash)

\* C39 as stated: no other xattr of the same type, whatever its Path and
\* Name, has the key of the xattr at hand.
C39_ToPathIsInjective ==
    xapc = "done" => \A y \in SameTypeXattrs : ToPath(y) = xkey => y = xattr

\* C39: ToPath joins Path and the escaped Name with the separator of the
\* type; among the xattrs of one type whose Path does not end with a
\* backslash no two have the same key, and neither have two xattrs of one
\* Path. (Path is written as it is: a Path that ends with a backslash makes
\* the joining separator read as an escaped one.)
C39_ToPathIsInjectiveForPathsNotEndingInBackslash ==
    /\ xapc = "done" => KeyIsJoinOfPathAndEscapedName
    /\ \A y \in SameTypeXattrs :
           (/\ ToPath(y) = xkey
            /\ \/ y.Path = xattr.Path
               \/ ~EndsWithBackslash(y.Path) /\ ~EndsWithBackslash(xattr.Path))
           => y = xattr

\* an extended attribute whose Path holds a separator and whose Name holds a
\* separator and a backslash
C39_Witness ==
    /\ xapc = "done"
    /\ xattr = [Type |-> "AttributeExtended", Path |-> <<58, 97>>, Name |-> <<58, 92>>]
    /\ xkey = <<58, 97, 58, 92, 58, 92, 92>>

\* cmd_sync has returned for a direction that is none of to, from, with
InvalidDirectionReturned ==
    sypc = "done" /\ syargs.direction \notin {"to", "from", "with"}

\* C40: sync with a direction other than to, from or with synchronizes
\* nothing and returns status 1 together with an error that is not nil.
C40_InvalidDirectionIsReportedAsAnError ==
    InvalidDirectionReturned =>
        /\ syret.status = 1
        /\ syret.err # NoErr
        /\ \A n \in {"repo", "peerRepository"} : repos[n].snapshots = sybefore[n]
        /\ syncerrs = <<>>

\* what holds: nothing is synchronized and the status is 1, with a nil error
C40_InvalidDirectionReturnsOneAndNil ==
    InvalidDirectionReturned =>
        /\ syret = [status |-> 1, err |-> NoErr]
        /\ \A n \in {"repo", "peerRepository"} : repos[n].snapshots = sybefore[n]
        /\ syncerrs = <<>>

====
